---- MODULE Spec2Model ----
(***************************************************************************)
(* Model of the ExploreAnalyzer component                                  *)
(* (src/src/components/ExploreAnalyzer.tsx): the per-section LookML        *)
(* generation orchestrator, the explore selection and the loading of a     *)
(* saved analysis.  Every action is one JavaScript task: an event handler  *)
(* up to its first await, or the continuation of an async function after   *)
(* the awaited transport call has settled.                                 *)
(***************************************************************************)
EXTENDS Integers, Sequences, FiniteSets, Bags, TLC

(***************************************************************************)
(* Bounds of the model.                                                    *)
(***************************************************************************)
\* longest accumulated code, counted in fragments returned by the transport
MaxCodeLen == 2
\* most continuation requests the user has outstanding at once
MaxContinuations == 1

(***************************************************************************)
(* JavaScript values.                                                      *)
(***************************************************************************)
\* the value of a missing property
Undefined == "undefined"
Null == "null"
\* code is a sequence of fragments; a missing code property is NoCode
NoCode == <<Undefined>>
EmptyString == <<>>
ErrorMessage == <<"Error generating LookML. Please try again.">>
\* the code a generation response may carry
GeneratedCodes == {<<"g1">>, <<"g2">>}
\* the fragment a continuation response may carry
Fragments == {<<"f">>}
Prompts == {"p1"}
\* the values of the explore selector: model/explore
Explores == {<<"m", "/", "a">>, <<"m", "/", "b">>}

\* JavaScript truthiness of a code / prompt / flag value
TruthyCode(c) == c # NoCode /\ c # EmptyString
TruthyPrompt(p) == p # Null /\ p # Undefined
TruthyFlag(f) == f = "true"

\* setError(...) messages
SelectSectionsMessage == "Please select at least one section to generate"
LoadFailedMessage == "Failed to load saved analysis"

(***************************************************************************)
(* Analysis results.                                                       *)
(***************************************************************************)
\* a string is the sequence of its characters, a free text of the form its
\* length, and raw_analysis a JSON text (the empty text when it is missing)
NullResult ==
  [status |-> Null, model_name |-> <<>>, explore_name |-> <<>>,
   top_used_fields |-> <<>>, raw_analysis |-> "", user_description |-> 0,
   common_questions |-> 0, user_goals |-> 0]

\* a field name; "." is the separator
FieldOrdersTotal ==
  <<"o", "r", "d", "e", "r", "s", ".", "t", "o", "t", "a", "l">>
FieldOrdersCount ==
  <<"o", "r", "d", "e", "r", "s", ".", "c", "o", "u", "n", "t">>

\* string.split(separator)
RECURSIVE splitBy(_, _)
splitBy(string, separator) ==
  IF string = <<>> THEN << <<>> >>
  ELSE IF Head(string) = separator
       THEN << <<>> >> \o splitBy(Tail(string), separator)
  ELSE LET rest == splitBy(Tail(string), separator)
       IN  << <<Head(string)>> \o Head(rest) >> \o Tail(rest)

\* field.split('.')
split(field) == splitBy(field, ".")

\* the analysis stored for an explore, as handleAnalyze saved it
SavedResult(e) ==
  [status |-> "success", model_name |-> splitBy(e, "/")[1],
   explore_name |-> splitBy(e, "/")[2],
   top_used_fields |-> << <<FieldOrdersTotal, 10>>, <<FieldOrdersCount, 3>> >>,
   raw_analysis |-> "", user_description |-> 20, common_questions |-> 30,
   user_goals |-> 10]

(***************************************************************************)
(* JSON values and JSON.parse on the texts the model feeds it.             *)
(***************************************************************************)
JSUndefined == [kind |-> "undefined"]
JSNull == [kind |-> "null"]
JSString(chars) == [kind |-> "string", chars |-> chars]
JSNumber(n) == [kind |-> "number", value |-> n]
JSArray(items) == [kind |-> "array", items |-> items]
JSObject(props) == [kind |-> "object", props |-> props]
\* JSON.parse throws
SyntaxError == [kind |-> "SyntaxError"]

\* if (value)
Truthy(value) ==
  CASE value.kind = "string" -> value.chars # <<>>
    [] value.kind = "number" -> value.value # 0
    [] value.kind \in {"null", "undefined"} -> FALSE
    [] OTHER -> TRUE

\* value.name, of a value that is neither null nor undefined
Property(value, name) ==
  IF value.kind = "object" /\ name \in DOMAIN value.props
  THEN value.props[name] ELSE JSUndefined

FieldAX == <<"a", ".", "x">>
FieldAY == <<"a", ".", "y">>
FieldBZ == <<"b", ".", "z">>

\* JSON.parse, on the serialized field lists and the raw_analysis documents
\* of the model; any other text is not JSON
JSONparse(text) ==
  CASE text = "[\"a.x\",\"a.y\"]" ->
         JSArray(<<JSString(FieldAX), JSString(FieldAY)>>)
    [] text = "[\"a.y\",\"b.z\"]" ->
         JSArray(<<JSString(FieldAY), JSString(FieldBZ)>>)
    [] text = "[\"a.x\",\"a.x\"]" ->
         JSArray(<<JSString(FieldAX), JSString(FieldAX)>>)
    [] text = "[\"b.z\"]" -> JSArray(<<JSString(FieldBZ)>>)
    [] text = "[]" -> JSArray(<<>>)
    [] text = "{}" -> JSObject(<<>>)
    [] text = "null" -> JSNull
    [] text = "5" -> JSNumber(5)
    [] text = "{\"view_name\":\"u\"}" ->
         JSObject([view_name |-> JSString(<<"u">>)])
    [] text = "{\"view_name\":\"o\",\"joins\":[{\"name\":\"u\",\"from\":\"c\"}]}" ->
         JSObject([view_name |-> JSString(<<"o">>),
                   joins |-> JSArray(<<JSObject([name |-> JSString(<<"u">>),
                                                 from |-> JSString(<<"c">>)])>>)])
    [] text = "{\"joins\":[{\"name\":\"u\"},{\"name\":\"o\",\"from\":\"u\"}]}" ->
         JSObject([joins |->
                     JSArray(<<JSObject([name |-> JSString(<<"u">>)]),
                               JSObject([name |-> JSString(<<"o">>),
                                         from |-> JSString(<<"u">>)])>>)])
    [] text = "{\"view_name\":\"u\",\"joins\":5}" ->
         JSObject([view_name |-> JSString(<<"u">>), joins |-> JSNumber(5)])
    [] text = "{\"joins\":[{\"name\":\"u\"},null,{\"name\":\"c\"}]}" ->
         JSObject([joins |->
                     JSArray(<<JSObject([name |-> JSString(<<"u">>)]), JSNull,
                               JSObject([name |-> JSString(<<"c">>)])>>)])
    [] OTHER -> SyntaxError

\* the section of the explore itself: 'explore'
ExploreSection == <<"e", "x", "p", "l", "o", "r", "e">>

\* Set.add on an insertion-ordered set
SetAdd(seq, x) ==
  IF \E i \in 1..Len(seq) : seq[i] = x THEN seq ELSE Append(seq, x)

\* the loop over top_used_fields taking the first part of every name that
\* has a separator
RECURSIVE AddFieldSectionsOfAnyDepth(_, _)
AddFieldSectionsOfAnyDepth(sections, fields) ==
  IF fields = <<>> THEN sections
  ELSE LET parts == split(Head(fields)[1])
       IN  AddFieldSectionsOfAnyDepth(
             IF Len(parts) >= 2 THEN SetAdd(sections, parts[1]) ELSE sections,
             Tail(fields))

\* the loop over top_used_fields
RECURSIVE AddFieldSections(_, _)
AddFieldSections(sections, fields) ==
  IF fields = <<>> THEN sections
  ELSE LET parts == split(Head(fields)[1])
       IN  AddFieldSections(
             IF Len(parts) = 2 THEN SetAdd(sections, parts[1]) ELSE sections,
             Tail(fields))

\* exploreData.joins.forEach(...): a join that is null ends the try
RECURSIVE AddJoinSections(_, _)
AddJoinSections(sections, joins) ==
  IF joins = <<>> THEN sections
  ELSE LET join == Head(joins)
           name == Property(join, "name")
           from == Property(join, "from")
           named == IF Truthy(name) THEN SetAdd(sections, name.chars)
                    ELSE sections
       IN  IF join.kind \in {"null", "undefined"} THEN sections
           ELSE AddJoinSections(IF Truthy(from) THEN SetAdd(named, from.chars)
                                ELSE named,
                                Tail(joins))

\* the try on raw_analysis, with its catch
AddRawSections(sections, text) ==
  LET exploreData == JSONparse(text)
      view_name == Property(exploreData, "view_name")
      joins == Property(exploreData, "joins")
      based == IF Truthy(view_name) THEN SetAdd(sections, view_name.chars)
               ELSE sections
  IN  IF exploreData.kind \in {"SyntaxError", "null"} THEN sections
      ELSE IF Truthy(joins) /\ joins.kind = "array"
           THEN AddJoinSections(based, joins.items)
      ELSE based

\* getSections: the sections of the current analysis result, in order
getSections(result) ==
  IF result = NullResult THEN <<>>
  ELSE LET fromFields ==
             AddFieldSections(<<ExploreSection>>, result.top_used_fields)
       IN  IF result.raw_analysis # ""
           THEN AddRawSections(fromFields, result.raw_analysis)
           ELSE fromFields

Range(seq) == {seq[i] : i \in 1..Len(seq)}

AllSections == UNION {Range(getSections(SavedResult(e))) : e \in Explores}

(***************************************************************************)
(* The prompt size estimate.                                               *)
(***************************************************************************)
\* tokenCount > 30000
TokenThreshold == 30000
\* Math.ceil(text.length / 4)
CharsPerToken == 4
\* the characters of the explore prompt template outside its placeholders
ExploreTemplateLength == 547
\* the characters of the view prompt template outside its placeholders
ViewTemplateLength == 516

\* string.startsWith(prefix)
startsWith(string, prefix) ==
  /\ Len(string) >= Len(prefix)
  /\ SubSeq(string, 1, Len(prefix)) = prefix

\* fields.map(f => f[0])
FieldNames(fields) == [i \in 1..Len(fields) |-> fields[i][1]]

\* the length of the joined names, an empty list shown as 'none'
RECURSIVE JoinLengthWithPlaceholder(_)
JoinLengthWithPlaceholder(names) ==
  IF names = <<>> THEN 4
  ELSE IF Len(names) = 1 THEN Len(names[1])
  ELSE Len(names[1]) + 2 + JoinLengthWithPlaceholder(Tail(names))

\* the length of names.join(', ')
RECURSIVE JoinLength(_)
JoinLength(names) ==
  IF names = <<>> THEN 0
  ELSE IF Len(names) = 1 THEN Len(names[1])
  ELSE Len(names[1]) + 2 + JoinLength(Tail(names))

\* top_used_fields.filter(f => f[0].startsWith(section + '.'))
viewFields(result, section) ==
  SelectSeq(result.top_used_fields,
            LAMBDA f : startsWith(f[1], section \o <<".">>))

\* the length of the prompt the effect builds for a section
PromptLength(result, section, description, questions, goals) ==
  IF section = ExploreSection
  THEN ExploreTemplateLength + Len(result.explore_name)
         + Len(result.model_name) + description + questions + goals
         + JoinLength(FieldNames(result.top_used_fields))
  ELSE ViewTemplateLength + Len(section) + Len(result.model_name)
         + description + questions + goals
         + JoinLength(FieldNames(viewFields(result, section)))

\* the estimate with the division rounded down
estimateTokensRoundingDown(length) == length \div CharsPerToken

\* estimateTokens, of a text of the given length
estimateTokens(length) == (length + CharsPerToken - 1) \div CharsPerToken

(***************************************************************************)
(* State.                                                                  *)
(***************************************************************************)
VARIABLES
  selectedExplore,           \* useState('')
  analysisResult,            \* useState<AnalysisResult | null>(null)
  sectionOutputs,            \* useState({}): section -> state record
  selectedSections,          \* useState(new Set()): insertion-ordered
  isGeneratingSequentially,  \* useState(false)
  currentSectionIndex,       \* useState(0)
  loads,                     \* outstanding storage.getAnalysisResult calls
  inflight,                  \* outstanding fetch('/generate_ca_lookml') calls
  resume,                    \* handleGenerateAll continuations ready to run
  error,                     \* useState<string | null>(null)
  userDescription,           \* useState(''): the text, by its length
  commonQuestions,           \* useState('')
  userGoals,                 \* useState('')
  promptSize,                \* useState(0)
  promptWarning,             \* useState(false)
  lastCall,                  \* history: the handler a caller invoked last
  weightedFieldsData,        \* ExploreDetails: the run_inline_query result
  weightedFields,            \* ExploreDetails: useState<WeightedField[]>([])
  detailsIsLoading,          \* ExploreDetails: isLoading, useState(true)
  exploreName,               \* ExploreDetails: the exploreName prop
  fetches,                   \* ExploreDetails: outstanding effect runs
  detailsSelectedFields,     \* ExploreDetails: selectedFields, a Set
  loadError,                 \* ExploreDetails: useState<string | null>(null)
  selectedFields,            \* useState<string[]>([]), set by onFieldsChange
  artifacts,                 \* the artifact store: key -> artifact
  returned,                  \* history: what the last storage call returned
  isAnalyzing,               \* useState(false)
  analyses                   \* outstanding handleAnalyze calls

\* the form texts of the page
formVars == <<userDescription, commonQuestions, userGoals>>

\* the prompt size estimate of the page
promptVars == <<promptSize, promptWarning>>

\* the state of the ExploreDetails component and the fields it reports
detailsVars == <<weightedFieldsData, weightedFields, detailsIsLoading,
                 exploreName, fetches, detailsSelectedFields, loadError,
                 selectedFields>>

\* the artifact store and the last answer of the ArtifactStorage
storageVars == <<artifacts, returned>>

\* the analysis in progress
analyzeVars == <<isAnalyzing, analyses>>

vars == <<selectedExplore, analysisResult, sectionOutputs, selectedSections,
          isGeneratingSequentially, currentSectionIndex, loads, inflight,
          resume, error, formVars, promptVars, lastCall, detailsVars,
          storageVars, analyzeVars>>

\* no handler has been invoked yet
NoCall == [handler |-> "none", section |-> <<>>, odd |-> FALSE]

\* the record of one more invocation of a handler
Call(handler, section) ==
  [handler |-> handler, section |-> section, odd |-> ~lastCall.odd]

NoState == [code |-> NoCode, isLoading |-> FALSE, isTruncated |-> Undefined,
            lastPrompt |-> Undefined, isContinuing |-> FALSE,
            copySuccess |-> FALSE]

\* { ...prev, [section]: state }
SetSection(prev, section, state) ==
  [t \in (DOMAIN prev) \cup {section} |->
     IF t = section THEN state ELSE prev[t]]

\* prev[section] || {}
PrevOrEmpty(prev, section) ==
  IF section \in DOMAIN prev THEN prev[section] ELSE NoState

\* the ExploreAnalyzer component after its first render
AnalyzerInit ==
  /\ selectedExplore = <<>>
  /\ analysisResult = NullResult
  /\ sectionOutputs = <<>>
  /\ selectedSections = <<>>
  /\ isGeneratingSequentially = FALSE
  /\ currentSectionIndex = 0
  /\ loads = EmptyBag
  /\ isAnalyzing = FALSE
  /\ analyses = EmptyBag
  /\ inflight = EmptyBag
  /\ resume = <<>>
  /\ error = Null
  /\ userDescription = 0
  /\ commonQuestions = 0
  /\ userGoals = 0
  /\ promptSize = 0
  /\ promptWarning = FALSE
  /\ lastCall = NoCall

\* the ExploreDetails component before it is given an explore
DetailsInit ==
  /\ weightedFields = <<>>
  /\ detailsIsLoading = TRUE
  /\ exploreName = <<>>
  /\ fetches = EmptyBag
  /\ detailsSelectedFields = <<>>
  /\ loadError = Null
  /\ selectedFields = <<>>

\* no storage call has returned yet
NoReturn == [call |-> "none", exploreName |-> <<>>, response |-> "none",
             kind |-> "none", value |-> NullResult,
             odd |-> FALSE]

\* an empty artifact store
StorageInit ==
  /\ artifacts = <<>>
  /\ returned = NoReturn

\* the page before any usage query has been answered
Init ==
  /\ AnalyzerInit
  /\ weightedFieldsData = <<>>
  /\ DetailsInit
  /\ StorageInit

\* the effect on [analysisResult, selectedSections, userDescription,
\* commonQuestions, userGoals], run with the values a handler has set
UpdatePromptSize(result, sections, description, questions, goals) ==
  IF result = NullResult THEN UNCHANGED promptVars
  ELSE IF Len(sections) = 0
       THEN promptSize' = 0 /\ promptWarning' = FALSE
  ELSE LET tokenCount ==
             estimateTokens(PromptLength(result, sections[1], description,
                                         questions, goals))
       IN  /\ promptSize' = tokenCount
           /\ promptWarning' = (tokenCount > TokenThreshold)

(***************************************************************************)
(* The generation transport: POST /generate_ca_lookml.                     *)
(***************************************************************************)
\* response bodies with the expected shape
WellFormedData(codes) ==
  [ca_lookml_code : codes, is_truncated : {"true", "false"},
   prompt : Prompts]

\* a JSON body without the expected properties (an error document)
MalformedData ==
  [ca_lookml_code |-> NoCode, is_truncated |-> Undefined,
   prompt |-> Undefined]

\* what `await fetch(...)` followed by `await response.json()` yields:
\* the parsed body, or a rejection (network error, body that is not JSON)
Responses(codes) ==
  {[settled |-> "rejected", data |-> MalformedData]}
    \cup {[settled |-> "resolved", data |-> d] :
            d \in WellFormedData(codes) \cup {MalformedData}}

GenerateRequest(section, arr, i) ==
  [kind |-> "generate", section |-> section, arr |-> arr, i |-> i,
   sectionState |-> NoState]

ContinueRequest(section, sectionState) ==
  [kind |-> "continue", section |-> section, arr |-> <<>>, i |-> 0,
   sectionState |-> sectionState]

\* the requests outstanding for a section, of one kind
Outstanding(kind, section) ==
  {r \in BagToSet(inflight) : r.kind = kind /\ r.section = section}

\* how many requests are outstanding for a section (both kinds)
RECURSIVE SumCopies(_)
SumCopies(S) ==
  IF S = {} THEN 0
  ELSE LET r == CHOOSE x \in S : TRUE
       IN  CopiesIn(r, inflight) + SumCopies(S \ {r})

OutstandingCount(kind, section) == SumCopies(Outstanding(kind, section))

(***************************************************************************)
(* Section states written by the handlers.                                 *)
(***************************************************************************)
\* handleGenerateSectionLookml, before the request
GeneratingState(prev, section) ==
  [PrevOrEmpty(prev, section) EXCEPT
     !.isLoading = TRUE, !.isTruncated = "false", !.lastPrompt = Null,
     !.isContinuing = FALSE, !.copySuccess = FALSE]

\* the success branch forgetting the prompt the response carries
GeneratedStateWithoutPrompt(data) ==
  [code |-> data.ca_lookml_code, isLoading |-> FALSE,
   isTruncated |-> data.is_truncated, lastPrompt |-> Null,
   isContinuing |-> FALSE, copySuccess |-> FALSE]

\* handleGenerateSectionLookml, after response.json()
GeneratedState(data) ==
  [code |-> data.ca_lookml_code, isLoading |-> FALSE,
   isTruncated |-> data.is_truncated, lastPrompt |-> data.prompt,
   isContinuing |-> FALSE, copySuccess |-> FALSE]

\* handleGenerateSectionLookml, catch
GenerateFailedState ==
  [code |-> ErrorMessage, isLoading |-> FALSE, isTruncated |-> "false",
   lastPrompt |-> Null, isContinuing |-> FALSE, copySuccess |-> FALSE]

\* data.ca_lookml_code || ''
OrEmpty(c) == IF TruthyCode(c) THEN c ELSE EmptyString

\* handleContinueSectionLookml, before the request
ContinuingState(sectionState) ==
  [sectionState EXCEPT !.isContinuing = TRUE, !.copySuccess = FALSE]

\* the success branch storing the fragment in place of the code
ContinuedStateReplacingCode(sectionState, data) ==
  [sectionState EXCEPT
     !.code = OrEmpty(data.ca_lookml_code),
     !.isTruncated = data.is_truncated, !.lastPrompt = data.prompt,
     !.isContinuing = FALSE, !.copySuccess = FALSE]

\* handleContinueSectionLookml, after response.json()
ContinuedState(sectionState, data) ==
  [sectionState EXCEPT
     !.code = sectionState.code \o OrEmpty(data.ca_lookml_code),
     !.isTruncated = data.is_truncated, !.lastPrompt = data.prompt,
     !.isContinuing = FALSE, !.copySuccess = FALSE]

\* handleContinueSectionLookml, catch
ContinueFailedState(sectionState) ==
  [sectionState EXCEPT !.isContinuing = FALSE]

\* handleCopySection without the spread of the section's state
CopiedStateWithoutSpread(prev, section) ==
  [NoState EXCEPT !.copySuccess = TRUE]

\* handleCopySection
CopiedState(prev, section) ==
  [PrevOrEmpty(prev, section) EXCEPT !.copySuccess = TRUE]

(***************************************************************************)
(* What the rendered page lets the user do.                                *)
(***************************************************************************)
\* the results card, with the generate controls, is rendered
ResultsCardRendered == analysisResult # NullResult

\* the button's guard without the running-bulk-run test
GenerateButtonDisabledIgnoringRun == Len(selectedSections) = 0

\* the button disabled also while the prompt size warning is shown
GenerateButtonDisabledOnWarning ==
  Len(selectedSections) = 0 \/ isGeneratingSequentially \/ promptWarning

\* disabled= of the 'Generate Selected Sections' button
GenerateButtonDisabled ==
  Len(selectedSections) = 0 \/ isGeneratingSequentially

\* the section card shows the code with its Copy button
CodeRendered(section) ==
  /\ ResultsCardRendered
  /\ section \in DOMAIN sectionOutputs
  /\ ~sectionOutputs[section].isLoading
  /\ TruthyCode(sectionOutputs[section].code)

\* the Continue button is rendered
ContinueButtonRendered(section) ==
  /\ CodeRendered(section)
  /\ TruthyFlag(sectionOutputs[section].isTruncated)

\* disabled= of the Continue button
ContinueButtonDisabled(section) == sectionOutputs[section].isContinuing

(***************************************************************************)
(* Actions.                                                                *)
(***************************************************************************)
\* handleExploreSelect, and the loadSavedAnalysis effect it triggers when
\* selectedExplore changes
handleExploreSelect(explore) ==
  /\ resume = <<>>
  /\ selectedExplore' = explore
  /\ analysisResult' = NullResult
  /\ loads' = IF explore # selectedExplore
              THEN loads (+) SetToBag({explore}) ELSE loads
  /\ error' = Null
  /\ userDescription' = 0
  /\ commonQuestions' = 0
  /\ userGoals' = 0
  /\ selectedFields' = <<>>
  /\ UNCHANGED <<sectionOutputs, selectedSections, isGeneratingSequentially,
                 currentSectionIndex, inflight, resume, promptVars, lastCall,
                 weightedFieldsData, weightedFields, detailsIsLoading,
                 exploreName, fetches, detailsSelectedFields, loadError,
                 storageVars, analyzeVars>>

\* loadSavedAnalysis after `await storage.getAnalysisResult(selectedExplore)`
loadSavedAnalysis(explore, outcome) ==
  /\ resume = <<>>
  /\ BagIn(explore, loads)
  /\ loads' = loads (-) SetToBag({explore})
  /\ analysisResult' = CASE outcome = "found" -> SavedResult(explore)
                         [] outcome = "none" -> NullResult
                         [] OTHER -> analysisResult
  /\ error' = IF outcome = "error" THEN LoadFailedMessage ELSE error
  /\ userDescription' =
       IF outcome = "found" THEN SavedResult(explore).user_description ELSE 0
  /\ commonQuestions' =
       IF outcome = "found" THEN SavedResult(explore).common_questions ELSE 0
  /\ userGoals' =
       IF outcome = "found" THEN SavedResult(explore).user_goals ELSE 0
  /\ UpdatePromptSize(analysisResult', selectedSections, userDescription',
                      commonQuestions', userGoals')
  /\ UNCHANGED <<selectedExplore, sectionOutputs, selectedSections,
                 isGeneratingSequentially, currentSectionIndex, inflight,
                 resume, lastCall, detailsVars,
                 storageVars, analyzeVars>>

\* handleSectionToggle, from a checkbox of the sections list
handleSectionToggle(section) ==
  /\ resume = <<>>
  /\ ResultsCardRendered
  /\ section \in Range(getSections(analysisResult))
  /\ selectedSections' =
       IF section \in Range(selectedSections)
       THEN SelectSeq(selectedSections, LAMBDA t : t # section)
       ELSE Append(selectedSections, section)
  /\ UpdatePromptSize(analysisResult, selectedSections', userDescription,
                      commonQuestions, userGoals)
  /\ UNCHANGED <<selectedExplore, analysisResult, sectionOutputs,
                 isGeneratingSequentially, currentSectionIndex, loads,
                 inflight, resume, error, formVars, lastCall, detailsVars,
                 storageVars, analyzeVars>>

\* handleGenerateAll with the loop calling handleGenerateSectionLookml
\* without awaiting it: every request is issued at the click
handleGenerateAllWithoutAwait ==
  /\ resume = <<>>
  /\ ResultsCardRendered
  /\ ~GenerateButtonDisabled
  /\ Len(selectedSections) # 0
  /\ LET arr == selectedSections
     IN  /\ isGeneratingSequentially' = FALSE
         /\ currentSectionIndex' = 0
         /\ sectionOutputs' =
              [t \in Range(arr) |-> GeneratingState(<<>>, t)]
         /\ inflight' = inflight (+)
              SetToBag({GenerateRequest(arr[k], <<arr[k]>>, 0) :
                          k \in 1..Len(arr)})
  /\ UNCHANGED <<selectedExplore, analysisResult, selectedSections, loads,
                 resume, error, formVars, promptVars, detailsVars,
                 storageVars, analyzeVars>>

\* handleGenerateAll without the test of the selection: with nothing selected
\* the loop has no iteration and the run ends in the same task
handleGenerateAllWithoutSelectionTest ==
  /\ resume = <<>>
  /\ LET arr == selectedSections
     IN  IF analysisResult = NullResult
         THEN UNCHANGED <<isGeneratingSequentially, currentSectionIndex,
                          sectionOutputs, inflight, error>>
         ELSE IF Len(arr) = 0
         THEN /\ isGeneratingSequentially' = FALSE
              /\ currentSectionIndex' = 0
              /\ sectionOutputs' = <<>>
              /\ UNCHANGED <<inflight, error>>
         ELSE /\ isGeneratingSequentially' = TRUE
              /\ currentSectionIndex' = 0
              /\ sectionOutputs' =
                   SetSection(<<>>, arr[1], GeneratingState(<<>>, arr[1]))
              /\ inflight' = inflight (+)
                   SetToBag({GenerateRequest(arr[1], arr, 0)})
              /\ UNCHANGED error
  /\ UNCHANGED <<selectedExplore, analysisResult, selectedSections, loads,
                 resume, formVars, promptVars, detailsVars,
                 storageVars, analyzeVars>>

\* handleGenerateAll up to the first await: the return without an analysis,
\* the rejection of an empty selection, or the reset and the request for the
\* first selected section
handleGenerateAll ==
  /\ resume = <<>>
  /\ LET arr == selectedSections
     IN  IF analysisResult = NullResult
         THEN UNCHANGED <<isGeneratingSequentially, currentSectionIndex,
                          sectionOutputs, inflight, error>>
         ELSE IF Len(arr) = 0
         THEN /\ error' = SelectSectionsMessage
              /\ UNCHANGED <<isGeneratingSequentially, currentSectionIndex,
                             sectionOutputs, inflight>>
         ELSE /\ isGeneratingSequentially' = TRUE
              /\ currentSectionIndex' = 0
              /\ sectionOutputs' =
                   SetSection(<<>>, arr[1], GeneratingState(<<>>, arr[1]))
              /\ inflight' = inflight (+)
                   SetToBag({GenerateRequest(arr[1], arr, 0)})
              /\ UNCHANGED error
  /\ UNCHANGED <<selectedExplore, analysisResult, selectedSections, loads,
                 resume, formVars, promptVars, detailsVars,
                 storageVars, analyzeVars>>

\* the catch of handleGenerateSectionLookml throwing the error again, so
\* that the loop of handleGenerateAll is left without its last statement
GenerateSectionResponseRethrowing(r, response) ==
  /\ resume = <<>>
  /\ BagIn(r, inflight)
  /\ r.kind = "generate"
  /\ inflight' = inflight (-) SetToBag({r})
  /\ sectionOutputs' =
       SetSection(sectionOutputs, r.section,
                  IF response.settled = "resolved"
                  THEN GeneratedState(response.data)
                  ELSE GenerateFailedState)
  /\ resume' = IF response.settled = "resolved" THEN Append(resume, r)
                                                ELSE resume
  /\ UNCHANGED <<selectedExplore, analysisResult, selectedSections,
                 isGeneratingSequentially, currentSectionIndex, loads, error,
                 formVars, promptVars, lastCall, detailsVars,
                 storageVars, analyzeVars>>

\* handleGenerateSectionLookml after the awaits: the response or the catch
GenerateSectionResponse(r, response) ==
  /\ resume = <<>>
  /\ BagIn(r, inflight)
  /\ r.kind = "generate"
  /\ inflight' = inflight (-) SetToBag({r})
  /\ sectionOutputs' =
       SetSection(sectionOutputs, r.section,
                  IF response.settled = "resolved"
                  THEN GeneratedState(response.data)
                  ELSE GenerateFailedState)
  /\ resume' = Append(resume, r)
  /\ UNCHANGED <<selectedExplore, analysisResult, selectedSections,
                 isGeneratingSequentially, currentSectionIndex, loads, error,
                 formVars, promptVars, lastCall, detailsVars,
                 storageVars, analyzeVars>>

\* handleGenerateAll when a failed section's error leaves the loop: the run
\* stops at the failed section
GenerateAllResumeAbortingOnFailure ==
  /\ resume # <<>>
  /\ LET r == Head(resume)
         i == r.i + 1
     IN  /\ resume' = Tail(resume)
         /\ IF i < Len(r.arr)
               /\ sectionOutputs[r.section].code # ErrorMessage
            THEN /\ currentSectionIndex' = i
                 /\ sectionOutputs' =
                      SetSection(sectionOutputs, r.arr[i + 1],
                                 GeneratingState(sectionOutputs, r.arr[i + 1]))
                 /\ inflight' = inflight (+)
                      SetToBag({[r EXCEPT !.section = r.arr[i + 1], !.i = i]})
                 /\ UNCHANGED isGeneratingSequentially
            ELSE /\ isGeneratingSequentially' = FALSE
                 /\ currentSectionIndex' = 0
                 /\ UNCHANGED <<sectionOutputs, inflight>>
  /\ UNCHANGED <<selectedExplore, analysisResult, selectedSections, loads,
                 error, formVars, promptVars, lastCall, detailsVars,
                 storageVars, analyzeVars>>

\* handleGenerateAll with a loop that does not call setCurrentSectionIndex
GenerateAllResumeWithoutIndex ==
  /\ resume # <<>>
  /\ LET r == Head(resume)
         i == r.i + 1
     IN  /\ resume' = Tail(resume)
         /\ IF i < Len(r.arr)
            THEN /\ sectionOutputs' =
                      SetSection(sectionOutputs, r.arr[i + 1],
                                 GeneratingState(sectionOutputs, r.arr[i + 1]))
                 /\ inflight' = inflight (+)
                      SetToBag({[r EXCEPT !.section = r.arr[i + 1], !.i = i]})
                 /\ UNCHANGED <<isGeneratingSequentially, currentSectionIndex>>
            ELSE /\ isGeneratingSequentially' = FALSE
                 /\ currentSectionIndex' = 0
                 /\ UNCHANGED <<sectionOutputs, inflight>>
  /\ UNCHANGED <<selectedExplore, analysisResult, selectedSections, loads,
                 error, formVars, promptVars, lastCall, detailsVars,
                 storageVars, analyzeVars>>

\* handleGenerateAll after `await handleGenerateSectionLookml(...)`: the next
\* iteration of the loop, or the end of the run
GenerateAllResume ==
  /\ resume # <<>>
  /\ LET r == Head(resume)
         i == r.i + 1
     IN  /\ resume' = Tail(resume)
         /\ IF i < Len(r.arr)
            THEN /\ currentSectionIndex' = i
                 /\ sectionOutputs' =
                      SetSection(sectionOutputs, r.arr[i + 1],
                                 GeneratingState(sectionOutputs, r.arr[i + 1]))
                 /\ inflight' = inflight (+)
                      SetToBag({[r EXCEPT !.section = r.arr[i + 1], !.i = i]})
                 /\ UNCHANGED isGeneratingSequentially
            ELSE /\ isGeneratingSequentially' = FALSE
                 /\ currentSectionIndex' = 0
                 /\ UNCHANGED <<sectionOutputs, inflight>>
  /\ UNCHANGED <<selectedExplore, analysisResult, selectedSections, loads,
                 error, formVars, promptVars, lastCall, detailsVars,
                 storageVars, analyzeVars>>

\* !sectionState || !sectionState.lastPrompt || !sectionState.code
ContinuationRejected(section) ==
  IF section \notin DOMAIN sectionOutputs THEN TRUE
  ELSE IF ~TruthyPrompt(sectionOutputs[section].lastPrompt) THEN TRUE
  ELSE ~TruthyCode(sectionOutputs[section].code)

\* handleContinueSectionLookml up to the await: the return of the guard, or
\* the request
handleContinueSectionLookml(section) ==
  /\ resume = <<>>
  /\ IF ContinuationRejected(section)
     THEN UNCHANGED <<sectionOutputs, inflight>>
     ELSE LET sectionState == sectionOutputs[section]
          IN  /\ Len(sectionState.code) < MaxCodeLen
              /\ sectionOutputs' =
                   SetSection(sectionOutputs, section,
                              ContinuingState(sectionState))
              /\ inflight' = inflight (+)
                   SetToBag({ContinueRequest(section, sectionState)})
  /\ UNCHANGED <<selectedExplore, analysisResult, selectedSections,
                 isGeneratingSequentially, currentSectionIndex, loads,
                 resume, error, formVars, promptVars, detailsVars,
                 storageVars, analyzeVars>>

\* handleContinueSectionLookml after the awaits: the response or the catch
ContinueSectionResponse(r, response) ==
  /\ resume = <<>>
  /\ BagIn(r, inflight)
  /\ r.kind = "continue"
  /\ inflight' = inflight (-) SetToBag({r})
  /\ sectionOutputs' =
       SetSection(sectionOutputs, r.section,
                  IF response.settled = "resolved"
                  THEN ContinuedState(r.sectionState, response.data)
                  ELSE ContinueFailedState(r.sectionState))
  /\ UNCHANGED <<selectedExplore, analysisResult, selectedSections,
                 isGeneratingSequentially, currentSectionIndex, loads,
                 resume, error, formVars, promptVars, lastCall, detailsVars,
                 storageVars, analyzeVars>>

\* handleCopySection, from the Copy button
handleCopySection(section) ==
  /\ resume = <<>>
  /\ CodeRendered(section)
  /\ sectionOutputs' =
       SetSection(sectionOutputs, section,
                  CopiedState(sectionOutputs, section))
  /\ UNCHANGED <<selectedExplore, analysisResult, selectedSections,
                 isGeneratingSequentially, currentSectionIndex, loads,
                 inflight, resume, error, formVars, promptVars, detailsVars,
                 storageVars, analyzeVars>>

\* a click on the Copy button of a section
CopyButtonClick(section) ==
  /\ handleCopySection(section)
  /\ lastCall' = Call("handleCopySection", section)

\* a click on the 'Generate Selected Sections' button
GenerateButtonClick ==
  /\ ResultsCardRendered
  /\ ~GenerateButtonDisabled
  /\ handleGenerateAll
  /\ UNCHANGED lastCall

\* the continuation requests outstanding, of all sections
ContinuationsOutstanding ==
  SumCopies({q \in BagToSet(inflight) : q.kind = "continue"})

\* a click on the Continue button of a section, by a user who has at most
\* MaxContinuations continuations outstanding
ContinueButtonClick(section) ==
  /\ ContinueButtonRendered(section)
  /\ ~ContinueButtonDisabled(section)
  /\ ContinuationRejected(section)
       \/ ContinuationsOutstanding < MaxContinuations
  /\ handleContinueSectionLookml(section)
  /\ UNCHANGED lastCall

\* the page with a storage that answers every load
Next ==
  \/ \E explore \in Explores :
       \* the user picks an explore once the previous load has settled
       loads = EmptyBag /\ handleExploreSelect(explore)
  \/ \E explore \in Explores, outcome \in {"found", "none"} :
       loadSavedAnalysis(explore, outcome)
  \/ \E section \in AllSections : handleSectionToggle(section)
  \/ GenerateButtonClick
  \/ \E r \in BagToSet(inflight), response \in Responses(GeneratedCodes) :
       GenerateSectionResponse(r, response)
  \/ GenerateAllResume
  \/ \E section \in AllSections : ContinueButtonClick(section)
  \/ \E r \in BagToSet(inflight), response \in Responses(Fragments) :
       ContinueSectionResponse(r, response)

Spec == Init /\ [][Next]_vars

(***************************************************************************)
(* The page driven by a caller that invokes the two generation handlers    *)
(* whether or not the page enables their buttons, on one explore.          *)
(***************************************************************************)
ExploreA == <<"m", "/", "a">>

\* handleGenerateAll, from its button or with nothing selected
InvokeGenerateAll ==
  /\ ResultsCardRendered
  /\ Len(selectedSections) = 0 \/ ~GenerateButtonDisabled
  /\ handleGenerateAll
  /\ lastCall' = Call("handleGenerateAll", <<>>)

\* handleContinueSectionLookml, from its button or on a section it rejects
InvokeContinueSectionLookml(section) ==
  /\ ResultsCardRendered
  /\ \/ ContinuationRejected(section)
     \/ /\ ContinueButtonRendered(section)
        /\ ~ContinueButtonDisabled(section)
        /\ ContinuationsOutstanding < MaxContinuations
  /\ handleContinueSectionLookml(section)
  /\ lastCall' = Call("handleContinueSectionLookml", section)

CallsNext ==
  \/ loads = EmptyBag /\ handleExploreSelect(ExploreA)
  \/ \E outcome \in {"found", "none", "error"} :
       loadSavedAnalysis(ExploreA, outcome)
  \/ \E section \in AllSections : handleSectionToggle(section)
  \/ InvokeGenerateAll
  \/ \E r \in BagToSet(inflight), response \in Responses({<<"g1">>}) :
       GenerateSectionResponse(r, response)
  \/ GenerateAllResume
  \/ \E section \in AllSections : InvokeContinueSectionLookml(section)
  \/ \E r \in BagToSet(inflight), response \in Responses(Fragments) :
       ContinueSectionResponse(r, response)

SpecCalls == Init /\ [][CallsNext]_vars

(***************************************************************************)
(* The usage aggregator of the ExploreDetails component                    *)
(* (src/src/components/ExploreDetails.tsx).                                *)
(***************************************************************************)
\* most records of a usage query result
MaxRecords == 2

\* JavaScript numbers: an integer, or NaN
Number(n) == [nan |-> FALSE, value |-> n]
NaN == [nan |-> TRUE, value |-> 0]

\* a + b
Plus(a, b) == IF a.nan \/ b.nan THEN NaN ELSE Number(a.value + b.value)

\* x || 0
OrZero(x) == IF x.nan THEN Number(0) ELSE x

Digits == {"0", "1", "2", "3", "4", "5", "6", "7", "8", "9"}

DigitValue(c) ==
  CASE c = "0" -> 0 [] c = "1" -> 1 [] c = "2" -> 2 [] c = "3" -> 3
    [] c = "4" -> 4 [] c = "5" -> 5 [] c = "6" -> 6 [] c = "7" -> 7
    [] c = "8" -> 8 [] c = "9" -> 9

\* the longest prefix of digits
RECURSIVE DigitPrefix(_)
DigitPrefix(string) ==
  IF string = <<>> \/ Head(string) \notin Digits THEN <<>>
  ELSE <<Head(string)>> \o DigitPrefix(Tail(string))

RECURSIVE DigitsValue(_)
DigitsValue(digits) ==
  IF digits = <<>> THEN 0
  ELSE 10 * DigitsValue(SubSeq(digits, 1, Len(digits) - 1))
         + DigitValue(digits[Len(digits)])

\* leading white space removed
RECURSIVE TrimStart(_)
TrimStart(string) ==
  IF string # <<>> /\ Head(string) = " " THEN TrimStart(Tail(string))
  ELSE string

\* parseInt(string, 10)
parseInt(string) ==
  LET trimmed == TrimStart(string)
      signed == trimmed # <<>> /\ Head(trimmed) \in {"-", "+"}
      digits == DigitPrefix(IF signed THEN Tail(trimmed) ELSE trimmed)
  IN  IF digits = <<>> THEN NaN
      ELSE IF signed /\ Head(trimmed) = "-"
           THEN Number(0 - DigitsValue(digits))
      ELSE Number(DigitsValue(digits))

\* the texts a record may carry as a field list; "" is a missing property
FieldListTexts ==
  {"[\"a.x\",\"a.y\"]", "[\"a.y\",\"b.z\"]", "[\"a.x\",\"a.x\"]", "[]", "{}",
   "[\"a.x\""}

\* what a record may carry as its run count; <<>> is a missing property
RunCounts == {<<>>, <<"0">>, <<"2">>, <<"5">>, <<"x">>}

\* the records of a usage query result
QueryRecords ==
  [formatted_fields : FieldListTexts, fields : {""}, query_run_count : RunCounts]
    \cup [formatted_fields : {""}, fields : {"", "[\"b.z\"]"},
          query_run_count : RunCounts]
    \cup [formatted_fields : {"[\"a.x\""}, fields : {"[\"b.z\"]"},
          query_run_count : RunCounts]

QueryResults == UNION {[1..n -> QueryRecords] : n \in 0..MaxRecords}

(***************************************************************************)
(* fetchExploreDetails: the weights of the fields.                         *)
(***************************************************************************)
\* record['query.formatted_fields'] ? JSON.parse(...) :
\*   (record['query.fields'] ? JSON.parse(...) : [])
parsedFields(record) ==
  IF record.formatted_fields # "" THEN JSONparse(record.formatted_fields)
  ELSE IF record.fields # "" THEN JSONparse(record.fields)
  ELSE JSArray(<<>>)

\* parseInt(record['history.query_run_count'] || '0', 10)
queryCount(record) ==
  parseInt(IF record.query_run_count = <<>> THEN <<"0">>
           ELSE record.query_run_count)

\* a Map is the sequence of its entries <<key, value>>, in insertion order
MapHas(map, key) == \E i \in 1..Len(map) : map[i][1] = key

\* map.get(key) || 0
MapGetOrZero(map, key) ==
  IF MapHas(map, key)
  THEN OrZero(map[CHOOSE i \in 1..Len(map) : map[i][1] = key][2])
  ELSE Number(0)

\* map.set(key, value)
MapSet(map, key, value) ==
  IF MapHas(map, key)
  THEN [i \in 1..Len(map) |->
          IF map[i][1] = key THEN <<key, value>> ELSE map[i]]
  ELSE Append(map, <<key, value>>)

\* parsedFields.forEach(field => fieldWeights.set(field, ... + queryCount))
RECURSIVE AddFields(_, _, _)
AddFields(map, fields, count) ==
  IF fields = <<>> THEN map
  ELSE AddFields(MapSet(map, Head(fields).chars,
                        Plus(MapGetOrZero(map, Head(fields).chars), count)),
                 Tail(fields), count)

\* the body of the try with a parse failure falling back to query.fields
AddRecordFallingBack(map, record) ==
  LET parsed == parsedFields(record)
      other == IF record.fields # "" THEN JSONparse(record.fields)
               ELSE JSArray(<<>>)
  IN  IF parsed.kind = "SyntaxError"
      THEN IF other.kind = "array"
           THEN AddFields(map, other.items, queryCount(record)) ELSE map
      ELSE IF parsed.kind = "array"
           THEN AddFields(map, parsed.items, queryCount(record))
      ELSE map

\* one iteration of weightedFieldsData.forEach: the try and its catch
AddRecord(map, record) ==
  LET parsed == parsedFields(record)
  IN  IF parsed.kind = "SyntaxError" THEN map
      ELSE IF parsed.kind = "array"
           THEN AddFields(map, parsed.items, queryCount(record))
      ELSE map

\* fieldWeights after weightedFieldsData.forEach
RECURSIVE AddRecords(_, _)
AddRecords(map, records) ==
  IF records = <<>> THEN map
  ELSE AddRecords(AddRecord(map, Head(records)), Tail(records))

fieldWeights(records) == AddRecords(<<>>, records)

\* the stable sort with the comparator (a, b) => b - a: each entry goes
\* before the first entry of smaller weight
InsertSorted(sorted, entry) ==
  LET smaller == {i \in 1..Len(sorted) : sorted[i][2].value < entry[2].value}
      k == IF smaller = {} THEN Len(sorted) + 1
           ELSE CHOOSE i \in smaller : \A j \in smaller : i <= j
  IN  SubSeq(sorted, 1, k - 1) \o <<entry>> \o SubSeq(sorted, k, Len(sorted))

RECURSIVE StableSort(_, _)
StableSort(sorted, entries) ==
  IF entries = <<>> THEN sorted
  ELSE StableSort(InsertSorted(sorted, Head(entries)), Tail(entries))

\* the orders of the entries
Orders(entries) ==
  {[i \in 1..Len(entries) |-> entries[p[i]]] :
     p \in {q \in [1..Len(entries) -> 1..Len(entries)] :
              \A i, j \in 1..Len(entries) : q[i] = q[j] => i = j}}

\* Array.from(fieldWeights.entries()).sort(([, a], [, b]) => b - a): with a
\* NaN weight the comparator is not consistent and the order is left to the
\* implementation
SortOutcomes(entries) ==
  IF \E i \in 1..Len(entries) : entries[i][2].nan
  THEN Orders(entries)
  ELSE {StableSort(<<>>, entries)}

\* .map(([name, weight]) => ({ name, weight }))
WeightedFields(entries) ==
  [i \in 1..Len(entries) |-> [name |-> entries[i][1], weight |-> entries[i][2]]]

\* setWeightedFields, setSelectedFields and onFieldsChange of the sorted
\* fields of a query result
ShowFields(data) ==
  \E sortedFields \in SortOutcomes(fieldWeights(data)) :
    /\ weightedFields' = WeightedFields(sortedFields)
    /\ detailsSelectedFields' = FieldNames(sortedFields)
    /\ selectedFields' = FieldNames(sortedFields)

\* fetchExploreDetails after `await sdk.ok(sdk.run_inline_query(...))`
fetchExploreDetails ==
  /\ detailsIsLoading
  /\ ShowFields(weightedFieldsData)
  /\ detailsIsLoading' = FALSE
  /\ UNCHANGED <<selectedExplore, analysisResult, sectionOutputs,
                 selectedSections, isGeneratingSequentially,
                 currentSectionIndex, loads, inflight, resume, error,
                 formVars, promptVars, lastCall, weightedFieldsData,
                 exploreName, fetches, loadError, storageVars, analyzeVars>>

\* the component with the answer of the usage query at hand
AggregatorInit ==
  /\ AnalyzerInit
  /\ weightedFieldsData \in QueryResults
  /\ DetailsInit
  /\ StorageInit

AggregatorNext == fetchExploreDetails

SpecAggregator == AggregatorInit /\ [][AggregatorNext]_vars

(***************************************************************************)
(* The sections list, of the page showing an analysis result.  The result  *)
(* comes from the analysis service or from the storage: its field names    *)
(* and its raw_analysis are whatever was returned.                         *)
(***************************************************************************)
\* the most fields an analysis result of the sections model lists
MaxFields == 2

FieldUsersName == <<"u", "s", "e", "r", "s", ".", "n", "a", "m", "e">>

\* the field names an analysis result may list: 'o.t', 'o.c', 'u.n', 'x',
\* 'a.b.c', 'o.' and '.t'
SectionFieldNames ==
  {<<"o", ".", "t">>, <<"o", ".", "c">>, <<"u", ".", "n">>, <<"x">>,
   <<"a", ".", "b", ".", "c">>, <<"o", ".">>, <<".", "t">>}

\* top_used_fields: [name, weight] pairs
SectionFieldLists ==
  UNION {[1..n -> {<<name, 1>> : name \in SectionFieldNames}] : n \in 0..MaxFields}
    \cup {<< <<FieldOrdersTotal, 10>>, <<FieldOrdersCount, 3>>,
             <<FieldUsersName, 1>> >>}

\* raw_analysis: "" is a result without it
RawAnalysisTexts ==
  {"", "not json", "null", "5", "{}", "{\"view_name\":\"u\"}",
   "{\"view_name\":\"o\",\"joins\":[{\"name\":\"u\",\"from\":\"c\"}]}",
   "{\"joins\":[{\"name\":\"u\"},{\"name\":\"o\",\"from\":\"u\"}]}",
   "{\"view_name\":\"u\",\"joins\":5}",
   "{\"joins\":[{\"name\":\"u\"},null,{\"name\":\"c\"}]}"}

AnalysisResults(fieldLists, rawTexts) ==
  {[status |-> "success", model_name |-> <<"m">>, explore_name |-> <<"a">>,
    top_used_fields |-> fields, raw_analysis |-> raw, user_description |-> 20,
    common_questions |-> 30, user_goals |-> 10] :
     fields \in fieldLists, raw \in rawTexts}

SectionResults == AnalysisResults(SectionFieldLists, RawAnalysisTexts)

\* the page of explore m/a once the analysis result is set, with the texts
\* of the result in the form
PageLoaded(result) ==
  /\ selectedExplore = ExploreA
  /\ analysisResult = result
  /\ sectionOutputs = <<>>
  /\ selectedSections = <<>>
  /\ isGeneratingSequentially = FALSE
  /\ currentSectionIndex = 0
  /\ loads = EmptyBag
  /\ isAnalyzing = FALSE
  /\ analyses = EmptyBag
  /\ inflight = EmptyBag
  /\ resume = <<>>
  /\ error = Null
  /\ userDescription = result.user_description
  /\ commonQuestions = result.common_questions
  /\ userGoals = result.user_goals
  /\ promptSize = 0
  /\ promptWarning = FALSE
  /\ lastCall = NoCall
  /\ weightedFieldsData = <<>>
  /\ DetailsInit
  /\ StorageInit

SectionsInit == \E result \in SectionResults : PageLoaded(result)

\* the user ticks one section of the list, or unticks it
SectionsNext ==
  \E section \in Range(getSections(analysisResult)) :
    /\ selectedSections \in {<<>>, <<section>>}
    /\ handleSectionToggle(section)

SpecSections == SectionsInit /\ [][SectionsNext]_vars

(***************************************************************************)
(* The form and the generate controls of the page showing an analysis      *)
(* result: the user edits the three texts, ticks sections and runs the     *)
(* bulk generation.                                                        *)
(***************************************************************************)
\* the analysis results of the form model: the fields 'o.t' and 'o.c' of
\* a view and a field 'n' of none, and a result without fields
FormResults ==
  AnalysisResults({<< <<<<"o", ".", "t">>, 10>>, <<<<"o", ".", "c">>, 3>>,
                      <<<<"n">>, 1>> >>, <<>>}, {""})

\* e.target.value of the three text areas, as lengths; the longest
\* description, with goals of 10 characters and no questions, brings the
\* explore prompt to 120000 characters
DescriptionLengths == {0, 20, 119430}
QuestionsLengths == {0, 1, 30}
GoalsLengths == {0, 10}

\* onUserDescriptionChange
setUserDescription(value) ==
  /\ selectedExplore # <<>>
  /\ userDescription' = value
  /\ UpdatePromptSize(analysisResult, selectedSections, value,
                      commonQuestions, userGoals)
  /\ UNCHANGED <<selectedExplore, analysisResult, sectionOutputs,
                 selectedSections, isGeneratingSequentially,
                 currentSectionIndex, loads, inflight, resume, error,
                 commonQuestions, userGoals, lastCall, detailsVars,
                 storageVars, analyzeVars>>

\* onCommonQuestionsChange
setCommonQuestions(value) ==
  /\ selectedExplore # <<>>
  /\ commonQuestions' = value
  /\ UpdatePromptSize(analysisResult, selectedSections, userDescription,
                      value, userGoals)
  /\ UNCHANGED <<selectedExplore, analysisResult, sectionOutputs,
                 selectedSections, isGeneratingSequentially,
                 currentSectionIndex, loads, inflight, resume, error,
                 userDescription, userGoals, lastCall, detailsVars,
                 storageVars, analyzeVars>>

\* onUserGoalsChange
setUserGoals(value) ==
  /\ selectedExplore # <<>>
  /\ userGoals' = value
  /\ UpdatePromptSize(analysisResult, selectedSections, userDescription,
                      commonQuestions, value)
  /\ UNCHANGED <<selectedExplore, analysisResult, sectionOutputs,
                 selectedSections, isGeneratingSequentially,
                 currentSectionIndex, loads, inflight, resume, error,
                 userDescription, commonQuestions, lastCall, detailsVars,
                 storageVars, analyzeVars>>

FormInit == \E result \in FormResults : PageLoaded(result)

FormNext ==
  \/ \E value \in DescriptionLengths : setUserDescription(value)
  \/ \E value \in QuestionsLengths : setCommonQuestions(value)
  \/ \E value \in GoalsLengths : setUserGoals(value)
  \/ \E section \in Range(getSections(analysisResult)) :
       handleSectionToggle(section)
  \/ GenerateButtonClick
  \/ \E r \in BagToSet(inflight), response \in Responses({<<"g1">>}) :
       GenerateSectionResponse(r, response)
  \/ GenerateAllResume

SpecForm == FormInit /\ [][FormNext]_vars

(***************************************************************************)
(* The section cards of the page of one explore: bulk runs started while   *)
(* no request is outstanding, continuations of any truncated section, and  *)
(* the Copy buttons.                                                       *)
(***************************************************************************)
PanelsInit == PageLoaded(SavedResult(ExploreA))

\* a click on the Continue button of a section, whatever else is outstanding
ContinueClick(section) ==
  /\ ContinueButtonRendered(section)
  /\ ~ContinueButtonDisabled(section)
  /\ handleContinueSectionLookml(section)
  /\ UNCHANGED lastCall

PanelsNext ==
  \/ \E section \in AllSections : handleSectionToggle(section)
  \/ inflight = EmptyBag /\ GenerateButtonClick
  \/ \E r \in BagToSet(inflight), response \in Responses({<<"g1">>}) :
       GenerateSectionResponse(r, response)
  \/ GenerateAllResume
  \/ \E section \in AllSections : ContinueClick(section)
  \/ \E r \in BagToSet(inflight), response \in Responses(Fragments) :
       ContinueSectionResponse(r, response)
  \/ \E section \in AllSections : CopyButtonClick(section)

SpecPanels == PanelsInit /\ [][PanelsNext]_vars

\* the section cards when every fetch settles and every continuation of an
\* async handler is run
SpecPanelsFair ==
  /\ SpecPanels
  /\ WF_vars(\E r \in BagToSet(inflight), response \in Responses({<<"g1">>}) :
               GenerateSectionResponse(r, response))
  /\ WF_vars(\E r \in BagToSet(inflight), response \in Responses(Fragments) :
               ContinueSectionResponse(r, response))
  /\ WF_vars(GenerateAllResume)

(***************************************************************************)
(* The ArtifactStorage over the artifact store.                            *)
(***************************************************************************)
\* how many times one artifact is written
MaxVersion == 2

\* the results handleAnalyze saves
StorableResults == {SavedResult(e) : e \in Explores}

\* `explore_analysis_${exploreName}`
ArtifactKey(name) == <<"explore_analysis_">> \o name

\* JSON.stringify(result): the text of a result; JSON.parse of the text
\* gives what it is the text of
JSONstringify(result) == [text |-> "json", of |-> result]

\* 'name' in response, response an object or an array
HasProperty(response, name) ==
  response.kind = "object" /\ name \in DOMAIN response.props

\* sdk.ok(sdk.artifact({key, namespace})): the artifact as it was written,
\* alone (shape "object") or in an array (shape "array"), the two answers
\* saveAnalysisResult provides for; a transport failure is outcome "error"
sdkArtifact(store, key, shape, outcome) ==
  CASE outcome = "error" -> [kind |-> "error", message |-> "Network Error"]
    [] outcome # "error" /\ key \in DOMAIN store ->
         IF shape = "array" THEN [kind |-> "array", items |-> <<store[key]>>]
                            ELSE [kind |-> "object", props |-> store[key]]
    [] OTHER -> IF shape = "array"
                THEN [kind |-> "array", items |-> <<>>]
                ELSE [kind |-> "error", message |-> "Not Found"]

\* the version saveAnalysisResult reads from the current artifact
CurrentVersion(current) ==
  CASE current.kind = "array" /\ Len(current.items) > 0 ->
         current.items[1].version
    [] current.kind = "object" /\ HasProperty(current, "version") ->
         current.props.version
    [] OTHER -> 0

\* sdk.update_artifacts(namespace, [artifact]): an upsert, refused when the
\* version given is not the version stored
UpdateAccepted(store, artifact) ==
  IF artifact.key \in DOMAIN store
  THEN artifact.version = 0 \/ artifact.version = store[artifact.key].version
  ELSE TRUE

update_artifacts(store, artifact) ==
  LET version == IF artifact.key \in DOMAIN store
                 THEN store[artifact.key].version + 1 ELSE 1
      rest == [k \in DOMAIN store \ {artifact.key} |-> store[k]]
  IN  (artifact.key :> [artifact EXCEPT !.version = version]) @@ rest

\* what a storage call gave its caller
Return(call, name, response, kind, value) ==
  [call |-> call, exploreName |-> name, response |-> response, kind |-> kind,
   value |-> value, odd |-> ~returned.odd]

\* the artifact saveAnalysisResult writes, with the version it has read
ArtifactToSave(name, result, shape) ==
  [key |-> ArtifactKey(name), value |-> JSONstringify(result),
   content_type |-> "application/json",
   version |-> CurrentVersion(sdkArtifact(artifacts, ArtifactKey(name),
                                          shape, "ok"))]

\* storage.saveAnalysisResult(exploreName, result)
saveAnalysisResult(name, result, shape, outcome) ==
  LET artifact == ArtifactToSave(name, result, shape)
      accepted == outcome = "ok" /\ UpdateAccepted(artifacts, artifact)
  IN  /\ artifact.version < MaxVersion
      /\ artifacts' = IF accepted THEN update_artifacts(artifacts, artifact)
                                  ELSE artifacts
      /\ returned' = Return("saveAnalysisResult", name, shape,
                            IF accepted THEN "void" ELSE "throws", NullResult)
      /\ UNCHANGED <<selectedExplore, analysisResult, sectionOutputs,
                     selectedSections, isGeneratingSequentially,
                     currentSectionIndex, loads, inflight, resume, error,
                     formVars, promptVars, lastCall, detailsVars,
                     analyzeVars>>

\* what getAnalysisResult makes of the answer of the store
AnalysisResultOf(response) ==
  CASE response.kind = "error" ->
         IF response.message = "Not Found"
         THEN [kind |-> "null", value |-> NullResult]
         ELSE [kind |-> "throws", value |-> NullResult]
    [] response.kind # "error" /\ HasProperty(response, "content") ->
         [kind |-> "value", value |-> response.props.content.of]
    [] OTHER -> [kind |-> "null", value |-> NullResult]

\* storage.getAnalysisResult(exploreName)
getAnalysisResult(name, shape, outcome) ==
  LET response == sdkArtifact(artifacts, ArtifactKey(name), shape, outcome)
      answer == AnalysisResultOf(response)
  IN  /\ returned' = Return("getAnalysisResult", name,
                            IF response.kind = "error" THEN response.message
                                                       ELSE response.kind,
                            answer.kind, answer.value)
      /\ UNCHANGED <<selectedExplore, analysisResult, sectionOutputs,
                     selectedSections, isGeneratingSequentially,
                     currentSectionIndex, loads, inflight, resume, error,
                     formVars, promptVars, lastCall, detailsVars, artifacts,
                     analyzeVars>>

\* the page with an empty store, and callers saving and loading results
StorageNext ==
  \/ \E name \in Explores, result \in StorableResults,
        shape \in {"array", "object"}, outcome \in {"ok", "error"} :
       saveAnalysisResult(name, result, shape, outcome)
  \/ \E name \in Explores, shape \in {"array", "object"},
        outcome \in {"ok", "error"} :
       getAnalysisResult(name, shape, outcome)

SpecStorage == Init /\ [][StorageNext]_vars

(***************************************************************************)
(* The page of a user who analyzes explores and switches between them      *)
(* while loads and analyses are outstanding.                               *)
(***************************************************************************)
\* how many loads of saved analyses are outstanding at once
MaxLoads == 2

\* the field names ExploreDetails reports for an explore
FieldsOfExplore(explore) ==
  IF explore = ExploreA THEN <<FieldOrdersTotal, FieldUsersName>>
                        ELSE <<FieldOrdersCount>>

\* onFieldsChange={setSelectedFields}
setSelectedFields(names) ==
  /\ selectedExplore # <<>>
  /\ selectedFields' = names
  /\ UNCHANGED <<selectedExplore, analysisResult, sectionOutputs,
                 selectedSections, isGeneratingSequentially,
                 currentSectionIndex, loads, inflight, resume, error,
                 formVars, promptVars, lastCall, weightedFieldsData,
                 weightedFields, detailsIsLoading, exploreName, fetches,
                 detailsSelectedFields, loadError, storageVars, analyzeVars>>

\* isFormValid, of texts that are not blank
isFormValid ==
  /\ selectedExplore # <<>>
  /\ Len(selectedFields) > 0
  /\ userDescription # 0 /\ commonQuestions # 0 /\ userGoals # 0

\* handleAnalyze up to its fetch('/analyze')
handleAnalyze ==
  /\ resume = <<>>
  /\ IF ~isFormValid
     THEN /\ error' = "Please fill in all required fields before generating insights"
          /\ UNCHANGED analyzeVars
     ELSE /\ error' = Null
          /\ isAnalyzing' = TRUE
          /\ analyses' = analyses (+) SetToBag({
               [selectedExplore |-> selectedExplore,
                user_description |-> userDescription,
                common_questions |-> commonQuestions,
                user_goals |-> userGoals, top_fields |-> selectedFields,
                awaits |-> "fetch"]})
  /\ UNCHANGED <<selectedExplore, analysisResult, sectionOutputs,
                 selectedSections, isGeneratingSequentially,
                 currentSectionIndex, loads, inflight, resume, formVars,
                 promptVars, lastCall, detailsVars, storageVars>>

\* analysisWithTimestamp: the result of the server for the explore and the
\* fields of the request, with the texts of the request
analysisWithTimestamp(r) ==
  [status |-> "success", model_name |-> splitBy(r.selectedExplore, "/")[1],
   explore_name |-> splitBy(r.selectedExplore, "/")[2],
   top_used_fields |-> [i \in 1..Len(r.top_fields) |-> <<r.top_fields[i], 1>>],
   raw_analysis |-> "", user_description |-> r.user_description,
   common_questions |-> r.common_questions, user_goals |-> r.user_goals]

\* handleAnalyze after `await fetch(...)` and `await response.json()`: the
\* result is set and saved, or the failure is shown
AnalyzeResponse(r, outcome) ==
  /\ resume = <<>>
  /\ BagIn(r, analyses)
  /\ r.awaits = "fetch"
  /\ IF outcome = "success"
     THEN /\ analysisResult' = analysisWithTimestamp(r)
          /\ analyses' = (analyses (-) SetToBag({r}))
                           (+) SetToBag({[r EXCEPT !.awaits = "save"]})
          /\ UNCHANGED <<error, isAnalyzing>>
     ELSE /\ error' = IF outcome = "failed"
                      THEN "Analysis failed"
                      ELSE "Failed to analyze explore. Please try again."
          /\ isAnalyzing' = FALSE
          /\ analyses' = analyses (-) SetToBag({r})
          /\ UNCHANGED analysisResult
  /\ UpdatePromptSize(analysisResult', selectedSections, userDescription,
                      commonQuestions, userGoals)
  /\ UNCHANGED <<selectedExplore, sectionOutputs, selectedSections,
                 isGeneratingSequentially, currentSectionIndex, loads,
                 inflight, resume, formVars, lastCall, detailsVars,
                 storageVars>>

\* handleAnalyze after `await storage.saveAnalysisResult(...)`
AnalyzeSaved(r, shape, outcome) ==
  LET artifact == ArtifactToSave(r.selectedExplore, analysisWithTimestamp(r),
                                 shape)
      accepted == outcome = "ok" /\ UpdateAccepted(artifacts, artifact)
  IN  /\ resume = <<>>
      /\ BagIn(r, analyses)
      /\ r.awaits = "save"
      /\ artifacts' = IF accepted THEN update_artifacts(artifacts, artifact)
                                  ELSE artifacts
      /\ error' = IF accepted THEN error
                  ELSE "Analysis completed but failed to save results"
      /\ isAnalyzing' = FALSE
      /\ analyses' = analyses (-) SetToBag({r})
      /\ UNCHANGED <<selectedExplore, analysisResult, sectionOutputs,
                     selectedSections, isGeneratingSequentially,
                     currentSectionIndex, loads, inflight, resume, formVars,
                     promptVars, lastCall, detailsVars, returned>>

\* a click on the 'Generate Insights' button, the artifact of the explore
\* written less than MaxVersion times
AnalyzeButtonClick ==
  /\ isFormValid /\ ~isAnalyzing
  /\ IF ArtifactKey(selectedExplore) \in DOMAIN artifacts
     THEN artifacts[ArtifactKey(selectedExplore)].version < MaxVersion
     ELSE TRUE
  /\ handleAnalyze

\* the user fills in the three texts from the first to the last
FormTyping ==
  \/ userDescription = 0 /\ setUserDescription(20)
  \/ userDescription # 0 /\ commonQuestions = 0 /\ setCommonQuestions(30)
  \/ commonQuestions # 0 /\ userGoals = 0 /\ setUserGoals(10)

SwitchNext ==
  \/ \E explore \in Explores :
       BagCardinality(loads) < MaxLoads /\ handleExploreSelect(explore)
  \/ \E explore \in Explores, outcome \in {"found", "none", "error"} :
       loadSavedAnalysis(explore, outcome)
  \/ setSelectedFields(FieldsOfExplore(selectedExplore))
  \/ FormTyping
  \/ AnalyzeButtonClick
  \/ \E r \in BagToSet(analyses),
        outcome \in {"success", "failed", "rejected"} :
       AnalyzeResponse(r, outcome)
  \/ \E r \in BagToSet(analyses), shape \in {"array", "object"},
        outcome \in {"ok", "error"} :
       AnalyzeSaved(r, shape, outcome)

SpecSwitch == Init /\ [][SwitchNext]_vars

(***************************************************************************)
(* The page of a user who stays on one explore, analyzes it with all its   *)
(* fields or with all but the last, ticks the sections of its views and    *)
(* runs the bulk generation; no answer is truncated, as this user starts   *)
(* no continuation.                                                        *)
(***************************************************************************)
ReanalyzeNext ==
  \/ selectedExplore = <<>> /\ handleExploreSelect(ExploreA)
  \/ loadSavedAnalysis(ExploreA, "none")
  \/ \E n \in {Len(FieldsOfExplore(ExploreA)) - 1,
                Len(FieldsOfExplore(ExploreA))} :
       setSelectedFields(SubSeq(FieldsOfExplore(ExploreA), 1, n))
  \/ FormTyping
  \/ AnalyzeButtonClick
  \/ \E r \in BagToSet(analyses), outcome \in {"success", "rejected"} :
       AnalyzeResponse(r, outcome)
  \/ \E r \in BagToSet(analyses), outcome \in {"ok", "error"} :
       AnalyzeSaved(r, "array", outcome)
  \/ \E section \in Range(getSections(analysisResult)) \ {ExploreSection} :
       handleSectionToggle(section)
  \/ GenerateButtonClick
  \/ \E r \in BagToSet(inflight),
        response \in {x \in Responses({<<"g1">>}) :
                        x.data.is_truncated # "true"} :
       GenerateSectionResponse(r, response)
  \/ GenerateAllResume

SpecReanalyze == Init /\ [][ReanalyzeNext]_vars

(***************************************************************************)
(* The ExploreDetails component given one explore after another: every     *)
(* change of its exploreName prop runs the cleanup of the previous effect   *)
(* and starts a fetch.                                                     *)
(***************************************************************************)
\* how many fetches are outstanding at once
MaxFetches == 2

\* the answer of the usage query for an explore
UsageOf(name) ==
  IF name = ExploreA
  THEN << [formatted_fields |-> "[\"a.x\",\"a.y\"]", fields |-> "",
           query_run_count |-> <<"2">>] >>
  ELSE << [formatted_fields |-> "", fields |-> "[\"b.z\"]",
           query_run_count |-> <<"5">>] >>

\* the effect on [exploreName, sdk] after handleExploreSelect has given the
\* component another explore: the cleanup of the previous run (isMounted =
\* false), then fetchExploreDetails up to its first await
exploreNameChange(name) ==
  LET Count(e) ==
        CopiesIn([exploreName |-> e, isMounted |-> TRUE], fetches)
          + CopiesIn([exploreName |-> e, isMounted |-> FALSE], fetches)
      stale == {[exploreName |-> e, isMounted |-> FALSE] :
                  e \in {x \in Explores : Count(x) > 0}}
  IN  /\ name # exploreName
      /\ exploreName' = name
      /\ selectedFields' = <<>>
      /\ fetches' = [f \in stale |-> Count(f.exploreName)]
                      (+) SetToBag({[exploreName |-> name, isMounted |-> TRUE]})
      /\ detailsIsLoading' = TRUE
      /\ loadError' = Null
      /\ UNCHANGED <<selectedExplore, analysisResult, sectionOutputs,
                     selectedSections, isGeneratingSequentially,
                     currentSectionIndex, loads, inflight, resume, error,
                     formVars, promptVars, lastCall, weightedFieldsData,
                     weightedFields, detailsSelectedFields, storageVars,
                     analyzeVars>>

\* fetchExploreDetails after its awaits, whatever isMounted is
fetchExploreDetailsUnguarded(f, outcome) ==
  /\ BagIn(f, fetches)
  /\ fetches' = fetches (-) SetToBag({f})
  /\ lastCall' = Call("fetchExploreDetails", f.exploreName)
  /\ IF outcome = "data"
     THEN ShowFields(UsageOf(f.exploreName)) /\ UNCHANGED loadError
     ELSE /\ loadError' = outcome
          /\ UNCHANGED <<weightedFields, detailsSelectedFields,
                         selectedFields>>
  /\ detailsIsLoading' = FALSE
  /\ UNCHANGED <<selectedExplore, analysisResult, sectionOutputs,
                 selectedSections, isGeneratingSequentially,
                 currentSectionIndex, loads, inflight, resume, error,
                 formVars, promptVars, weightedFieldsData, exploreName,
                 storageVars, analyzeVars>>

\* fetchExploreDetails after its awaits: the fields of the answer or the
\* message of the failure are set, unless the effect has been cleaned up
fetchExploreDetailsSettled(f, outcome) ==
  /\ BagIn(f, fetches)
  /\ fetches' = fetches (-) SetToBag({f})
  /\ lastCall' = Call("fetchExploreDetails", f.exploreName)
  /\ IF ~f.isMounted
     THEN UNCHANGED <<weightedFields, detailsSelectedFields, selectedFields,
                      loadError, detailsIsLoading>>
     ELSE /\ IF outcome = "data"
             THEN ShowFields(UsageOf(f.exploreName)) /\ UNCHANGED loadError
             ELSE /\ loadError' = outcome
                  /\ UNCHANGED <<weightedFields, detailsSelectedFields,
                                 selectedFields>>
          /\ detailsIsLoading' = FALSE
  /\ UNCHANGED <<selectedExplore, analysisResult, sectionOutputs,
                 selectedSections, isGeneratingSequentially,
                 currentSectionIndex, loads, inflight, resume, error,
                 formVars, promptVars, weightedFieldsData, exploreName,
                 storageVars, analyzeVars>>

\* handleFieldToggle, from a checkbox of the fields list
handleFieldToggle(fieldName) ==
  /\ ~detailsIsLoading /\ loadError = Null
  /\ \E i \in 1..Len(weightedFields) : weightedFields[i].name = fieldName
  /\ detailsSelectedFields' =
       IF fieldName \in Range(detailsSelectedFields)
       THEN SelectSeq(detailsSelectedFields, LAMBDA n : n # fieldName)
       ELSE Append(detailsSelectedFields, fieldName)
  /\ selectedFields' = detailsSelectedFields'
  /\ UNCHANGED <<selectedExplore, analysisResult, sectionOutputs,
                 selectedSections, isGeneratingSequentially,
                 currentSectionIndex, loads, inflight, resume, error,
                 formVars, promptVars, lastCall, weightedFieldsData,
                 weightedFields, detailsIsLoading, exploreName, fetches,
                 loadError, storageVars, analyzeVars>>

DetailsNext ==
  \/ \E name \in Explores :
       BagCardinality(fetches) < MaxFetches /\ exploreNameChange(name)
  \/ \E f \in BagToSet(fetches),
        outcome \in {"data",
                     "This explore does not exist in Looker. Please check your LookML project or select a different explore.",
                     "Failed to load explore details. Please try again."} :
       fetchExploreDetailsSettled(f, outcome)
  \/ \E i \in 1..Len(weightedFields) :
       handleFieldToggle(weightedFields[i].name)

SpecDetails == Init /\ [][DetailsNext]_vars

(***************************************************************************)
(* Claims about the generation orchestrator.                               *)
(***************************************************************************)
\* every request outstanding, whatever its kind, for a section
OutstandingAll(section) ==
  OutstandingCount("generate", section) + OutstandingCount("continue", section)

\* C1: while a generation request for a section is outstanding, no second
\* generation request is issued for that section: a section never has two
\* generation requests in flight.
C1_NoDuplicateGenerate ==
  \A section \in AllSections : OutstandingCount("generate", section) <= 1

\* C1 witness: a section is Generating, it is still selected and the page
\* shows the generate button, which is disabled.
C1_Witness ==
  \E section \in AllSections :
    /\ OutstandingCount("generate", section) = 1
    /\ section \in DOMAIN sectionOutputs
    /\ sectionOutputs[section].isLoading
    /\ section \in Range(selectedSections)
    /\ ResultsCardRendered
    /\ GenerateButtonDisabled

\* C2: a section never has more than one request in flight, generation and
\* continuation counted together.
C2_AtMostOneInFlight ==
  \A section \in AllSections : OutstandingAll(section) <= 1

\* a continuation request is superseded when its section is no longer in
\* the state the request left it in: something reset or rewrote the section
\* after the request was issued
Superseded(r) ==
  \/ r.section \notin DOMAIN sectionOutputs
  \/ sectionOutputs[r.section] # ContinuingState(r.sectionState)

\* C3: the response of a request that was superseded by a reset of its
\* section changes nothing of the section states when it arrives.
C3_StaleResponseIgnored ==
  [][\A r \in BagToSet(inflight), response \in Responses(Fragments) :
       (ContinueSectionResponse(r, response) /\ Superseded(r))
         => sectionOutputs' = sectionOutputs]_vars

\* C4: after the selected explore changed, no section holds code, a
\* truncation flag or a prompt any more.
C4_ExploreChangeResets ==
  [][selectedExplore' # selectedExplore =>
       \A section \in DOMAIN sectionOutputs' :
         /\ ~TruthyCode(sectionOutputs'[section].code)
         /\ ~TruthyFlag(sectionOutputs'[section].isTruncated)
         /\ ~TruthyPrompt(sectionOutputs'[section].lastPrompt)]_vars

\* the generation requests outstanding
GenerateRequests == {r \in BagToSet(inflight) : r.kind = "generate"}

\* the generation requests a step issues
IssuedGenerateRequests ==
  {r \in BagToSet(inflight') :
     r.kind = "generate" /\ CopiesIn(r, inflight') > CopiesIn(r, inflight)}

\* a section has reached Ready, Truncated or Failed: its own generation
\* request is answered and it is not loading
Terminal(section) ==
  /\ section \in DOMAIN sectionOutputs
  /\ ~sectionOutputs[section].isLoading
  /\ OutstandingCount("generate", section) = 0

\* at most one request of a bulk run is outstanding; it is the request of
\* the i-th selected section, and every earlier selected section is terminal
C5_OneAtATime ==
  /\ SumCopies(GenerateRequests) <= 1
  /\ \A r \in GenerateRequests :
       /\ r.i < Len(r.arr)
       /\ r.section = r.arr[r.i + 1]
       /\ \A j \in 1..r.i : Terminal(r.arr[j])

\* a request is issued either for the first selected section at the click,
\* or for section i+1 by the loop that has just seen section i end
C5_IssuedInOrder ==
  \A r \in IssuedGenerateRequests :
    \/ /\ r.i = 0
       /\ resume = <<>>
       /\ ~isGeneratingSequentially
       /\ r.arr = selectedSections
    \/ /\ r.i > 0
       /\ resume # <<>>
       /\ Head(resume).arr = r.arr
       /\ Head(resume).i + 1 = r.i
       /\ Terminal(Head(resume).section)

\* C5: bulk generate issues the requests of the selected sections in their
\* order, each only after the section before it is terminal, and never has
\* two requests outstanding.
C5_BulkSequentialInOrder ==
  []C5_OneAtATime /\ [][C5_IssuedInOrder]_vars

\* C5 witness: the request of the second selected section is outstanding
\* and the first selected section is terminal.
C5_Witness ==
  \E r \in GenerateRequests :
    /\ r.i = 1
    /\ r.section = r.arr[2]
    /\ Terminal(r.arr[1])

\* a failed generation writes the Failed state of its own section, leaves
\* every other section as it was and hands control back to the loop
C6_FailureIsolated ==
  \A r \in GenerateRequests, response \in Responses(GeneratedCodes) :
    (GenerateSectionResponse(r, response) /\ response.settled = "rejected")
      => /\ sectionOutputs'[r.section] = GenerateFailedState
         /\ DOMAIN sectionOutputs' = DOMAIN sectionOutputs \cup {r.section}
         /\ \A t \in DOMAIN sectionOutputs \ {r.section} :
              sectionOutputs'[t] = sectionOutputs[t]
         /\ resume' = <<r>>

\* the loop that resumes after a failed section issues the request of the
\* next selected section and leaves the failed section as it is
C6_RunGoesOn ==
  (/\ resume # <<>>
   /\ sectionOutputs[Head(resume).section] = GenerateFailedState
   /\ Head(resume).i + 1 < Len(Head(resume).arr))
    => LET r == Head(resume)
           next == r.arr[r.i + 2]
       IN  /\ BagIn(GenerateRequest(next, r.arr, r.i + 1), inflight')
           /\ sectionOutputs'[next].isLoading
           /\ isGeneratingSequentially'
           /\ sectionOutputs'[r.section] = GenerateFailedState

\* C6: a section's failure does not abort a bulk run and changes no other
\* section's state.
C6_FailureDoesNotAbort ==
  [][C6_FailureIsolated /\ C6_RunGoesOn]_vars

\* C6 witness: the first selected section Failed and the request of the
\* second one is outstanding.
C6_Witness ==
  \E r \in GenerateRequests :
    /\ r.i = 1
    /\ sectionOutputs[r.arr[1]] = GenerateFailedState
    /\ isGeneratingSequentially

\* the continuation requests outstanding
ContinueRequests == {r \in BagToSet(inflight) : r.kind = "continue"}

\* the continuation requests a step issues
IssuedContinueRequests ==
  {r \in BagToSet(inflight') :
     r.kind = "continue" /\ CopiesIn(r, inflight') > CopiesIn(r, inflight)}

\* a response that is a transport failure: a rejection, or a body without
\* the expected properties
Failure(response) ==
  response.settled = "rejected" \/ response.data = MalformedData

\* C7: a Truncated section with code C that receives a successful
\* continuation response with fragment F ends with code C followed by F,
\* the response's truncation flag and isContinuing = false.
C7_ContinuationAppends ==
  [][\A r \in ContinueRequests, response \in Responses(Fragments) :
       (/\ ContinueSectionResponse(r, response)
        /\ ~Failure(response)
        /\ r.section \in DOMAIN sectionOutputs
        /\ TruthyFlag(sectionOutputs[r.section].isTruncated))
         => /\ sectionOutputs'[r.section].code =
                 sectionOutputs[r.section].code
                   \o response.data.ca_lookml_code
            /\ sectionOutputs'[r.section].isTruncated =
                 response.data.is_truncated
            /\ ~sectionOutputs'[r.section].isContinuing]_vars

\* C8: a failed continuation puts the section back to the code, truncation
\* flag and prompt it had before the continuation started, not continuing.
C8_FailedContinuationRestores ==
  [][\A r \in ContinueRequests, response \in Responses(Fragments) :
       (ContinueSectionResponse(r, response) /\ Failure(response))
         => /\ sectionOutputs'[r.section].code = r.sectionState.code
            /\ sectionOutputs'[r.section].isTruncated =
                 r.sectionState.isTruncated
            /\ sectionOutputs'[r.section].lastPrompt =
                 r.sectionState.lastPrompt
            /\ ~sectionOutputs'[r.section].isContinuing]_vars

\* C9: a generation request that ends in a transport failure leaves its
\* section Failed (not loading, not truncated, no prompt, the error message
\* as its text) and issues no further request.
C9_GenerationFailureIsFailed ==
  [][\A r \in GenerateRequests, response \in Responses(GeneratedCodes) :
       (GenerateSectionResponse(r, response) /\ Failure(response))
         => /\ ~sectionOutputs'[r.section].isLoading
            /\ ~TruthyFlag(sectionOutputs'[r.section].isTruncated)
            /\ ~TruthyPrompt(sectionOutputs'[r.section].lastPrompt)
            /\ sectionOutputs'[r.section].code = ErrorMessage
            /\ inflight' = inflight (-) SetToBag({r})]_vars

\* a successful generation response stores the code, the prompt and the
\* truncation flag it carries and ends the loading
C10_ResponseStored ==
  \A r \in GenerateRequests, response \in Responses(GeneratedCodes) :
    (GenerateSectionResponse(r, response) /\ ~Failure(response))
      => /\ sectionOutputs'[r.section].code = response.data.ca_lookml_code
         /\ sectionOutputs'[r.section].lastPrompt = response.data.prompt
         /\ sectionOutputs'[r.section].isTruncated =
              response.data.is_truncated
         /\ ~sectionOutputs'[r.section].isLoading
         /\ ~sectionOutputs'[r.section].isContinuing

\* a continuation request carries the prompt and the code stored for its
\* section
C10_StoredIsSent ==
  \A r \in IssuedContinueRequests :
    /\ r.section \in DOMAIN sectionOutputs
    /\ r.sectionState.lastPrompt = sectionOutputs[r.section].lastPrompt
    /\ r.sectionState.code = sectionOutputs[r.section].code
    /\ TruthyPrompt(r.sectionState.lastPrompt)
    /\ TruthyCode(r.sectionState.code)

\* C10: a successful generation response stores the returned code and
\* prompt, ends the loading and marks the truncation; the stored prompt and
\* code are what the section's next continuation sends.
C10_GenerationStoredAndSent ==
  [][C10_ResponseStored /\ C10_StoredIsSent]_vars

\* C10 witness: a continuation request carrying a generated code and its
\* prompt is outstanding.
C10_Witness ==
  \E r \in ContinueRequests :
    /\ r.sectionState.code \in GeneratedCodes
    /\ r.sectionState.lastPrompt \in Prompts
    /\ r.section \in DOMAIN sectionOutputs
    /\ sectionOutputs[r.section].isContinuing

(***************************************************************************)
(* Claims about the rejection of calls whose precondition fails.           *)
(***************************************************************************)
\* some handler was invoked by the step
Invoked(handler) == lastCall' # lastCall /\ lastCall'.handler = handler

C12_ContinuationRejectedWithError ==
  [][\A section \in AllSections :
       /\ Invoked("handleContinueSectionLookml")
       /\ lastCall'.section = section
       /\ ContinuationRejected(section)
       => /\ inflight' = inflight
          /\ sectionOutputs' = sectionOutputs
          /\ error' # Null
          /\ error' # error]_vars

(***************************************************************************)
(* Claims about the usage aggregator.                                      *)
(***************************************************************************)
\* the field list of the record parses
ListParses(record) == parsedFields(record).kind # "SyntaxError"

\* the record has a field list and it does not parse
ListFailsToParse(record) ==
  (record.formatted_fields # "" \/ record.fields # "") /\ ~ListParses(record)

\* the names of the parsed field list of a record, in order
ListedNames(record) ==
  LET parsed == parsedFields(record)
  IN  IF parsed.kind = "array"
      THEN [i \in 1..Len(parsed.items) |-> parsed.items[i].chars]
      ELSE <<>>

\* the names of all parsed field lists, in input order
RECURSIVE SeenNames(_)
SeenNames(records) ==
  IF records = <<>> THEN <<>>
  ELSE ListedNames(Head(records)) \o SeenNames(Tail(records))

\* where a name is first seen in the input
FirstSeen(name, records) ==
  LET seen == SeenNames(records)
  IN  CHOOSE i \in 1..Len(seen) :
        seen[i] = name /\ \A j \in 1..(i - 1) : seen[j] # name

\* the run count of a record, 0 when it is missing or not a number
RunCountOrZero(record) ==
  LET count == record.query_run_count
  IN  IF count # <<>> /\ \A i \in 1..Len(count) : count[i] \in Digits
      THEN DigitsValue(count) ELSE 0

\* the sum, over the records and the occurrences of the name in their
\* parsed lists, of the run count
RECURSIVE SumOfRunCounts(_, _)
SumOfRunCounts(name, records) ==
  IF records = <<>> THEN 0
  ELSE Cardinality({i \in 1..Len(ListedNames(Head(records))) :
                      ListedNames(Head(records))[i] = name})
         * RunCountOrZero(Head(records))
       + SumOfRunCounts(name, Tail(records))

\* a >= b, a = b on JavaScript numbers
AtLeast(a, b) == ~a.nan /\ ~b.nan /\ a.value >= b.value
SameWeight(a, b) == ~a.nan /\ ~b.nan /\ a.value = b.value

\* C13: the aggregated fields are ordered by non-increasing weight, fields
\* of equal weight in the order in which they were first seen in the input,
\* and no field name occurs twice.
C13_SortedStableUnique ==
  ~detailsIsLoading =>
    \A i, j \in 1..Len(weightedFields) :
      i < j =>
        /\ AtLeast(weightedFields[i].weight, weightedFields[j].weight)
        /\ SameWeight(weightedFields[i].weight, weightedFields[j].weight)
             => FirstSeen(weightedFields[i].name, weightedFieldsData)
                  < FirstSeen(weightedFields[j].name, weightedFieldsData)
        /\ weightedFields[i].name # weightedFields[j].name

\* C14: the aggregated fields are the fields seen in a parsed list, and the
\* weight of each is the sum of the run counts of its occurrences, a missing
\* or non-numeric run count counting as 0.
C14_WeightIsSumOfRunCounts ==
  ~detailsIsLoading =>
    /\ {weightedFields[i].name : i \in 1..Len(weightedFields)}
         = Range(SeenNames(weightedFieldsData))
    /\ \A i \in 1..Len(weightedFields) :
         weightedFields[i].weight
           = Number(SumOfRunCounts(weightedFields[i].name, weightedFieldsData))

\* C15: the records whose field list fails to parse change no weight: the
\* aggregation gives what it gives for the other records alone, and nothing
\* when no record has a field list that parses.
C15_UnparsedRecordsSkipped ==
  LET others == SelectSeq(weightedFieldsData, ListParses)
  IN  /\ fieldWeights(weightedFieldsData) = fieldWeights(others)
      /\ ~detailsIsLoading =>
           /\ weightedFields \in
                {WeightedFields(o) : o \in SortOutcomes(fieldWeights(others))}
           /\ (\A i \in 1..Len(weightedFieldsData) :
                 LET record == weightedFieldsData[i]
                 IN  ListFailsToParse(record)
                       \/ (record.formatted_fields = "" /\ record.fields = ""))
                => weightedFields = <<>>

\* the first record's list failed to parse and the second record was still
\* aggregated
C15_Witness ==
  /\ ~detailsIsLoading
  /\ Len(weightedFieldsData) = 2
  /\ ListFailsToParse(weightedFieldsData[1])
  /\ weightedFieldsData[1].fields # ""
  /\ weightedFields # <<>>
  /\ \A i \in 1..Len(weightedFields) :
       weightedFields[i].name \in Range(ListedNames(weightedFieldsData[2]))

(***************************************************************************)
(* Claims about the sections derived from an analysis result.              *)
(***************************************************************************)
\* the number of separators of a field name
Separators(name) == Cardinality({i \in 1..Len(name) : name[i] = "."})

\* the part of a name before its first separator
ObjectPart(name) ==
  SubSeq(name, 1, (CHOOSE i \in 1..Len(name) :
                     name[i] = "." /\ \A j \in 1..(i - 1) : name[j] # ".") - 1)

\* the object parts of the names with exactly one separator, in the order
\* of the fields
FieldPrefixes(fields) ==
  LET wellFormed == SelectSeq(fields, LAMBDA f : Separators(f[1]) = 1)
  IN  [i \in 1..Len(wellFormed) |-> ObjectPart(wellFormed[i][1])]

IsName(value) == value.kind = "string" /\ value.chars # <<>>

\* the name, then the from, of each join descriptor of a join sequence
RECURSIVE JoinNames(_)
JoinNames(joins) ==
  IF joins = <<>> THEN <<>>
  ELSE LET join == Head(joins)
           name == Property(join, "name")
           from == Property(join, "from")
       IN  (IF IsName(name) THEN <<name.chars>> ELSE <<>>)
             \o (IF IsName(from) THEN <<from.chars>> ELSE <<>>)
             \o JoinNames(Tail(joins))

\* the base object name and the join names a raw_analysis text declares
DeclaredNames(text) ==
  LET document == JSONparse(text)
      view_name == Property(document, "view_name")
      joins == Property(document, "joins")
  IN  IF text = "" \/ document.kind # "object" THEN <<>>
      ELSE (IF IsName(view_name) THEN <<view_name.chars>> ELSE <<>>)
             \o (IF joins.kind = "array" THEN JoinNames(joins.items) ELSE <<>>)

\* the text parses, to a document of the shape of the data model: an object
\* whose view_name, if any, is a name and whose joins, if any, are a
\* sequence of descriptors
ExpectedShape(text) ==
  LET document == JSONparse(text)
      view_name == Property(document, "view_name")
      joins == Property(document, "joins")
  IN  /\ document.kind = "object"
      /\ view_name.kind \in {"undefined", "string"}
      /\ \/ joins.kind = "undefined"
         \/ /\ joins.kind = "array"
            /\ \A i \in 1..Len(joins.items) : joins.items[i].kind = "object"

FirstIndex(seq, x) == CHOOSE i \in 1..Len(seq) : seq[i] = x /\ \A j \in 1..(i - 1) : seq[j] # x

\* sections holds the names of the sequence, once each, in the order of
\* their first appearance in it
InOrderOfFirstAppearance(sections, names) ==
  /\ \A i, j \in 1..Len(sections) : i # j => sections[i] # sections[j]
  /\ Range(sections) = Range(names)
  /\ \A i, j \in 1..Len(sections) :
       i < j => FirstIndex(names, sections[i]) < FirstIndex(names, sections[j])

\* C16: for every analysis result getSections returns a duplicate-free
\* sequence: 'explore' first, then the field-prefix names in the order of
\* their first appearance in top_used_fields, then the base object name and
\* each join's name, then its from, in the order of the joins of
\* raw_analysis; the fields orders.total, orders.count, users.name without
\* raw_analysis give exactly explore, orders, users
C16_SectionsInOrder ==
  LET sections == getSections(analysisResult)
  IN  analysisResult # NullResult =>
        /\ Len(sections) > 0 /\ sections[1] = ExploreSection
        /\ InOrderOfFirstAppearance(
             sections,
             <<ExploreSection>> \o FieldPrefixes(analysisResult.top_used_fields)
               \o DeclaredNames(analysisResult.raw_analysis))
        /\ (/\ FieldNames(analysisResult.top_used_fields)
                 = <<FieldOrdersTotal, FieldOrdersCount, FieldUsersName>>
            /\ analysisResult.raw_analysis = "")
           => sections = <<ExploreSection, <<"o", "r", "d", "e", "r", "s">>,
                           <<"u", "s", "e", "r", "s">> >>

\* the sections of the first n fields of the analysis result, taken alone
SectionsOfFirst(n) ==
  getSections([analysisResult EXCEPT
                 !.top_used_fields = SubSeq(analysisResult.top_used_fields, 1, n),
                 !.raw_analysis = ""])

\* C17: a field name of top_used_fields contributes a section only if it
\* has exactly one separator, and the section is then its object part; a
\* name with no separator or with more than one contributes no section
C17_OneSeparatorRule ==
  analysisResult # NullResult =>
    \A n \in 1..Len(analysisResult.top_used_fields) :
      LET name == analysisResult.top_used_fields[n][1]
          before == SectionsOfFirst(n - 1)
          after == SectionsOfFirst(n)
      IN  IF Separators(name) = 1
          THEN after = IF ObjectPart(name) \in Range(before) THEN before
                       ELSE Append(before, ObjectPart(name))
          ELSE after = before

\* the page lists the section of a name with one separator, which the user
\* has ticked, and none for a name with two separators
C17_Witness ==
  /\ analysisResult # NullResult
  /\ FieldNames(analysisResult.top_used_fields)
       = << <<"a", ".", "b", ".", "c">>, <<"o", ".", "t">> >>
  /\ analysisResult.raw_analysis = ""
  /\ getSections(analysisResult) = <<ExploreSection, <<"o">> >>
  /\ selectedSections = << <<"o">> >>

\* C18: when raw_analysis is present and does not parse, or parses to data
\* without the expected shape, getSections returns exactly the sections
\* derived from top_used_fields alone
C18_FallsBackToFieldSections ==
  (/\ analysisResult # NullResult
   /\ analysisResult.raw_analysis # ""
   /\ ~ExpectedShape(analysisResult.raw_analysis))
  => getSections(analysisResult)
       = SectionsOfFirst(Len(analysisResult.top_used_fields))

(***************************************************************************)
(* Claims about the prompt size estimate.                                  *)
(***************************************************************************)
\* the weighted fields the prompt of a section lists: all of them for the
\* explore section, those of the view for another section
RelevantNames(section) ==
  LET names == FieldNames(analysisResult.top_used_fields)
      prefix == section \o <<".">>
  IN  IF section = ExploreSection THEN names
      ELSE SelectSeq(names, LAMBDA name :
                              /\ Len(name) >= Len(prefix)
                              /\ \A i \in 1..Len(prefix) : name[i] = prefix[i])

\* the characters of the names joined by ', '
JoinedLength(names) ==
  LET Sum[i \in 0..Len(names)] ==
        IF i = 0 THEN 0 ELSE Sum[i - 1] + Len(names[i])
  IN  Sum[Len(names)] + (IF Len(names) = 0 THEN 0 ELSE 2 * (Len(names) - 1))

\* the characters of the prompt of the section the estimate is made for:
\* the template with the names of the explore or view and of the model,
\* the three texts of the form and the joined names of the fields
EstimatedPromptLength ==
  LET section == selectedSections[1]
  IN  (IF section = ExploreSection
       THEN ExploreTemplateLength + Len(analysisResult.explore_name)
       ELSE ViewTemplateLength + Len(section))
        + Len(analysisResult.model_name)
        + userDescription + commonQuestions + userGoals
        + JoinedLength(RelevantNames(section))

\* C19: the estimate shown is ceil(L / 4), L being the length of the prompt
\* of the section (all weighted fields for the explore section, those whose
\* name starts with the section and a separator for another); the warning
\* is set exactly when the estimate is greater than the threshold
C19_EstimateIsCeiling ==
  (analysisResult # NullResult /\ Len(selectedSections) > 0) =>
    /\ CharsPerToken * promptSize >= EstimatedPromptLength
    /\ CharsPerToken * (promptSize - 1) < EstimatedPromptLength
    /\ promptWarning <=> promptSize > TokenThreshold

\* the explore section is selected and the user has typed the texts that
\* bring its prompt to 120001 characters: 30001 tokens, with the warning
C19_Witness ==
  /\ analysisResult # NullResult
  /\ Len(selectedSections) > 0
  /\ selectedSections[1] = ExploreSection
  /\ commonQuestions = 1
  /\ EstimatedPromptLength = CharsPerToken * TokenThreshold + 1
  /\ promptSize = TokenThreshold + 1
  /\ promptWarning

\* the click on the generate button starts a bulk run
StartsBulkRun == ~isGeneratingSequentially /\ isGeneratingSequentially'

C20_ButtonIgnoresWarning ==
  (ResultsCardRendered /\ Len(selectedSections) > 0
     /\ ~isGeneratingSequentially) => ~GenerateButtonDisabled

C20_SameRequests ==
  [][/\ StartsBulkRun =>
          /\ inflight' = inflight (+) SetToBag({
               [kind |-> "generate", section |-> selectedSections[1],
                arr |-> selectedSections, i |-> 0, sectionState |-> NoState]})
          /\ promptWarning' = promptWarning
     /\ \A r \in IssuedGenerateRequests :
          /\ r.arr = IF StartsBulkRun THEN selectedSections
                     ELSE r.arr
          /\ r.i < Len(r.arr) /\ r.section = r.arr[r.i + 1]
          /\ r.sectionState = NoState]_vars

\* C20: the warning has no effect on submission: with sections selected
\* and no run in progress the generate button is enabled whether or not
\* the warning is set, and the bulk run it starts issues the generation
\* requests of the selected sections, one per section in their order,
\* whatever the warning
C20_WarningIsAdvisory == []C20_ButtonIgnoresWarning /\ C20_SameRequests

\* a bulk run started while the warning was shown has its request for the
\* first section outstanding
C20_Witness ==
  /\ promptWarning
  /\ isGeneratingSequentially
  /\ Len(selectedSections) > 0
  /\ GenerateRequest(selectedSections[1], selectedSections, 0)
       \in BagToSet(inflight)

(***************************************************************************)
(* Claims about the frame of the section states.                           *)
(***************************************************************************)
\* the step is handleCopySection of the section
MarkedCopied(section) ==
  /\ lastCall' # lastCall
  /\ lastCall'.handler = "handleCopySection"
  /\ lastCall'.section = section

\* C21: marking a section's code as copied changes only that section's
\* copySuccess flag: its code, isLoading, isTruncated, lastPrompt and
\* isContinuing, the state of every other section and the set of the
\* sections that have a state are unchanged
C21_CopyChangesOnlyTheFlag ==
  [][\A section \in AllSections :
       MarkedCopied(section) =>
         /\ DOMAIN sectionOutputs' = DOMAIN sectionOutputs
         /\ \A t \in DOMAIN sectionOutputs :
              sectionOutputs'[t] =
                IF t = section
                THEN [code |-> sectionOutputs[t].code,
                      isLoading |-> sectionOutputs[t].isLoading,
                      isTruncated |-> sectionOutputs[t].isTruncated,
                      lastPrompt |-> sectionOutputs[t].lastPrompt,
                      isContinuing |-> sectionOutputs[t].isContinuing,
                      copySuccess |-> TRUE]
                ELSE sectionOutputs[t]
         /\ section \in DOMAIN sectionOutputs
         /\ inflight' = inflight]_vars

\* the truncated code of a section is marked as copied, next to another
\* section that has its own state
C21_Witness ==
  \E section \in DOMAIN sectionOutputs, t \in DOMAIN sectionOutputs :
    /\ t # section
    /\ lastCall.handler = "handleCopySection"
    /\ lastCall.section = section
    /\ sectionOutputs[section].copySuccess
    /\ sectionOutputs[section].code = <<"g1">>
    /\ sectionOutputs[section].isTruncated = "true"
    /\ sectionOutputs[section].lastPrompt = "p1"
    /\ ~sectionOutputs[t].copySuccess

\* the requests a step issues or answers
RequestsOfStep ==
  {r \in BagToSet(inflight) \cup BagToSet(inflight') :
     CopiesIn(r, inflight') # CopiesIn(r, inflight)}

\* what the page stores for a section, if anything
StoredState(outputs, section) ==
  IF section \in DOMAIN outputs THEN <<outputs[section]>> ELSE <<>>

\* the start of a bulk run, which restarts every section
RestartsSections == ~isGeneratingSequentially /\ isGeneratingSequentially'

\* a step that issues or answers requests leaves the state of every section
\* that none of these requests is for as it was
C22_OthersUnchanged ==
  [][(RequestsOfStep # {} /\ ~RestartsSections) =>
       \A t \in AllSections :
         (\A r \in RequestsOfStep : r.section # t) =>
           StoredState(sectionOutputs', t) = StoredState(sectionOutputs, t)]_vars

\* a continuation answered with a fragment while the continuation of another
\* section is outstanding leaves its section with the code it had followed
\* by the fragment, and the other section as it was
C22_OwnCodeOwnFragment ==
  [][\A r \in ContinueRequests, q \in ContinueRequests,
        response \in Responses(Fragments) :
       (/\ q.section # r.section
        /\ ~Failure(response)
        /\ ContinueSectionResponse(r, response))
         => /\ sectionOutputs'[r.section].code
                 = sectionOutputs[r.section].code
                     \o response.data.ca_lookml_code
            /\ StoredState(sectionOutputs', q.section)
                 = StoredState(sectionOutputs, q.section)]_vars

RunsInProgress ==
  {r.arr : r \in GenerateRequests} \cup {resume[k].arr : k \in 1..Len(resume)}

\* C23: while the request of a bulk run for its i-th section (from 0) is
\* outstanding isGeneratingSequentially is true and currentSectionIndex is
\* i, so that the index stays within the n sections of the run; when no run
\* is in progress isGeneratingSequentially is false and the index is 0
C23_RunningIndex ==
  /\ \A r \in GenerateRequests :
       /\ isGeneratingSequentially
       /\ currentSectionIndex = r.i
       /\ r.section = r.arr[r.i + 1]
  /\ \A arr \in RunsInProgress :
       /\ isGeneratingSequentially
       /\ 0 <= currentSectionIndex /\ currentSectionIndex < Len(arr)
  /\ ~isGeneratingSequentially => currentSectionIndex = 0
  /\ RunsInProgress = {} => ~isGeneratingSequentially

\* the request for the second of two sections is outstanding
C23_Witness ==
  /\ isGeneratingSequentially
  /\ currentSectionIndex = 1
  /\ \E r \in GenerateRequests :
       r.i = 1 /\ Len(r.arr) = 2 /\ r.section = r.arr[2]

(***************************************************************************)
(* Claims about the artifact storage.                                      *)
(***************************************************************************)
\* the result saved last under the key of an explore
SavedUnder(name) == artifacts[ArtifactKey(name)].value.of

\* getAnalysisResult has just answered for the explore, the store reached
AnswersFor(name) ==
  /\ returned' # returned
  /\ returned'.call = "getAnalysisResult"
  /\ returned'.exploreName = name
  /\ returned'.response # "Network Error"

\* C24: once saveAnalysisResult(e, r) has succeeded, getAnalysisResult(e)
\* returns a result equal to r, and for an explore with no stored artifact
\* it returns null without raising
C24_RoundTrip ==
  [][\A name \in Explores :
       AnswersFor(name) =>
         IF ArtifactKey(name) \in DOMAIN artifacts
         THEN returned'.kind = "value" /\ returned'.value = SavedUnder(name)
         ELSE returned'.kind = "null"]_vars

(***************************************************************************)
(* Claims about the growth of the estimate.                                *)
(***************************************************************************)
\* the result with one more weighted field
WithField(result, name) ==
  [result EXCEPT !.top_used_fields = Append(@, <<name, 1>>)]

\* names a further weighted field may have
FurtherNames == {<<"o", ".", "x">>, <<"n", ".", "y">>, <<"z">>}

\* the characters of the prompt of a section with empty texts and no fields
TemplateLength(section) ==
  (IF section = ExploreSection
   THEN ExploreTemplateLength + Len(analysisResult.explore_name)
   ELSE ViewTemplateLength + Len(section)) + Len(analysisResult.model_name)

\* the estimate is made for a section
EstimateShown == analysisResult # NullResult /\ Len(selectedSections) > 0

\* a longer text in the form, the section of the estimate being the same,
\* never decreases the estimate
C25_LongerTexts ==
  [][(/\ EstimateShown
      /\ selectedSections' = selectedSections
      /\ userDescription' >= userDescription
      /\ commonQuestions' >= commonQuestions
      /\ userGoals' >= userGoals) => promptSize' >= promptSize]_vars

\* a further weighted field never gives a smaller estimate
C25_FurtherField ==
  EstimateShown =>
    \A name \in FurtherNames :
      estimateTokens(PromptLength(WithField(analysisResult, name),
                                  selectedSections[1], userDescription,
                                  commonQuestions, userGoals)) >= promptSize

\* with empty texts and no field of the section the estimate is
\* ceil(templateLength / 4)
C25_EmptyContext ==
  (/\ EstimateShown
   /\ userDescription = 0 /\ commonQuestions = 0 /\ userGoals = 0
   /\ RelevantNames(selectedSections[1]) = <<>>) =>
    /\ CharsPerToken * promptSize >= TemplateLength(selectedSections[1])
    /\ CharsPerToken * (promptSize - 1) < TemplateLength(selectedSections[1])

\* C25: for a fixed section the estimate never decreases when a weighted
\* field name is appended to the field list or a text of the form is
\* replaced by a longer one, and with empty texts and no fields it is
\* ceil(templateLength / 4)
C25_EstimateIsMonotonic ==
  C25_LongerTexts /\ []C25_FurtherField /\ []C25_EmptyContext

\* the explore section of a result without fields is selected and the
\* three texts have been emptied: the estimate is that of the template
C25_Witness ==
  /\ EstimateShown
  /\ selectedSections[1] = ExploreSection
  /\ analysisResult.top_used_fields = <<>>
  /\ userDescription = 0 /\ commonQuestions = 0 /\ userGoals = 0
  /\ promptSize = 138

(***************************************************************************)
(* Claims about switching explores.                                        *)
(***************************************************************************)
\* C26: in every reachable state the analysis result held by the page is
\* a result of the selected explore: a result of a load or of an analysis
\* of another explore that arrives late is never installed
C26_ResultOfSelectedExplore ==
  analysisResult # NullResult =>
    <<analysisResult.model_name, analysisResult.explore_name>>
       = splitBy(selectedExplore, "/")

\* C27: every generation request of a bulk run is for a section that
\* getSections derives from the analysis result current when the run
\* starts: the run starts on selected sections that are all derivable
C27_RunOnDerivableSections ==
  [][StartsBulkRun =>
       /\ Range(selectedSections) \subseteq Range(getSections(analysisResult))
       /\ \A r \in IssuedGenerateRequests :
            r.section \in Range(getSections(analysisResult))]_vars

(***************************************************************************)
(* Claims about the flags of a section.                                    *)
(***************************************************************************)
\* the flag of a section, false for a section without a state
FlagSet(section, flag) ==
  IF section \in DOMAIN sectionOutputs
  THEN IF flag = "isLoading" THEN sectionOutputs[section].isLoading
                             ELSE sectionOutputs[section].isContinuing
  ELSE FALSE

C28_NeverBoth ==
  \A section \in AllSections :
    ~(FlagSet(section, "isLoading") /\ FlagSet(section, "isContinuing"))

C28_LoadingWhileGenerating ==
  \A section \in AllSections :
    FlagSet(section, "isLoading") <=> OutstandingCount("generate", section) > 0

C28_ContinuingWhileContinuing ==
  \A section \in AllSections :
    FlagSet(section, "isContinuing")
      <=> OutstandingCount("continue", section) > 0

\* C28: no section has isLoading and isContinuing both true, and the
\* isLoading (isContinuing) flag of a section is true exactly while a
\* generation (continuation) request for the section is outstanding
C28_FlagsFollowRequests ==
  C28_NeverBoth /\ C28_LoadingWhileGenerating /\ C28_ContinuingWhileContinuing

(***************************************************************************)
(* Claims about the termination of a bulk run.                             *)
(***************************************************************************)
C29_RunEnds == isGeneratingSequentially ~> ~isGeneratingSequentially

C29_SectionsStopLoading ==
  \A section \in AllSections :
    FlagSet(section, "isLoading") ~> ~FlagSet(section, "isLoading")

\* C29: when every transport call completes, with a response or an error,
\* every bulk run that was started terminates: isGeneratingSequentially
\* returns to false and every section stops loading, also when sections fail
C29_BulkRunTerminates == C29_RunEnds /\ C29_SectionsStopLoading

\* a bulk run has ended with a selected section that failed
C29_Witness ==
  /\ ~isGeneratingSequentially
  /\ inflight = EmptyBag /\ resume = <<>>
  /\ \E section \in Range(selectedSections) :
       /\ section \in DOMAIN sectionOutputs
       /\ sectionOutputs[section].code = ErrorMessage
       /\ ~sectionOutputs[section].isLoading

(***************************************************************************)
(* Claims about ExploreDetails.                                            *)
(***************************************************************************)
\* the field names the usage of an explore lists
UsedNames(name) ==
  UNION {Range(ListedNames(UsageOf(name)[i])) : i \in 1..Len(UsageOf(name))}

\* the step is the arrival of the answer of a fetch whose effect has been
\* cleaned up
LateResultArrives ==
  \E f \in BagToSet(fetches) :
    ~f.isMounted /\ CopiesIn(f, fetches') < CopiesIn(f, fetches)

C30_LateResultDiscarded ==
  [][LateResultArrives =>
       UNCHANGED <<weightedFields, detailsSelectedFields, selectedFields,
                   detailsIsLoading, loadError>>]_vars

C30_FieldsOfRequestedExplore ==
  /\ Range(selectedFields) \subseteq UsedNames(exploreName)
  /\ (~detailsIsLoading /\ loadError = Null) =>
       {weightedFields[i].name : i \in 1..Len(weightedFields)}
         = UsedNames(exploreName)

\* C30: the answer of a fetch started for a previous explore changes
\* neither the weighted fields, the selected fields, the fields reported
\* to the parent nor the loading flag, and the fields shown and reported
\* are those of the explore requested last
C30_StaleFetchIgnored ==
  C30_LateResultDiscarded /\ []C30_FieldsOfRequestedExplore

\* the fields of explore m/b are shown and reported, and the answer that
\* arrived last was that of the fetch started before for explore m/a
C30_Witness ==
  /\ exploreName # ExploreA
  /\ ~detailsIsLoading /\ loadError = Null
  /\ Len(selectedFields) > 0
  /\ Range(selectedFields) = UsedNames(exploreName)
  /\ lastCall.handler = "fetchExploreDetails"
  /\ lastCall.section = ExploreA

====
